---- MODULE Spec2Model ----
(***************************************************************************)
(* Score-prediction game: the relational store of storage.py (matches,    *)
(* users, predictions, the leaderboard materialized view of migration      *)
(* 0001), the scoring functions and the operations the bot, the HTTP API   *)
(* and the import tool call on it.                                         *)
(***************************************************************************)
EXTENDS Integers, Sequences, FiniteSets, TLC

\* ------------------------------------------------------------------ bounds
MaxUser == 2
MaxMatch == 2
MaxScore == 1
MaxCalc == 3
MaxProc == 2
MaxOps == 5
MaxSubmits == 3
MaxRows == 15
MaxBoardOps == 4

UserIds == 1..MaxUser
MatchIds == 1..MaxMatch
Scores == 0..MaxScore
CalcScores == 0..MaxCalc
Procs == 1..MaxProc

\* ------------------------------------------------------- program constants
\* PointsRule row id=1 (never updated by any code path).
exact_points == 5
result_points == 1

\* SQL NULL / Python None for a nullable integer column.
NULL == 0 - 1
\* SQL NULL / Python None for the nullable text column users.username.
NoName == "None"

Names == {"ann", "bob"}
\* The display name each Telegram user currently carries.
NameOf == [u \in UserIds |-> IF u % 2 = 1 THEN "ann" ELSE "bob"]
Statuses == {"scheduled", "live", "finished"}
ScoreOrNull == Scores \cup {NULL}

VARIABLES
    matches,        \* table matches: id -> [team1, team2, score1, score2, status]
    users,          \* table users: id -> username
    predictions,    \* table predictions: set of rows
    match_seq,      \* last value handed out by the matches.id sequence
    leaderboard,    \* contents of MATERIALIZED VIEW leaderboard
    ret,            \* what the last call returned or raised
    calc,           \* inputs and results of the pure functions under check
    tx,             \* open append_prediction transactions, per process
    nops            \* number of calls made so far (bounded by MaxOps)

vars == <<matches, users, predictions, match_seq, leaderboard, ret, calc, tx, nops>>

\* ------------------------------------------------------------ pure helpers
RECURSIVE SumOver(_, _)
\* SQL SUM(f(row)) over a set of rows; f is a function row -> integer.
SumOver(S, f) ==
    IF S = {} THEN 0
    ELSE LET x == CHOOSE y \in S : TRUE
         IN f[x] + SumOver(S \ {x}, f)

\* SQL SIGN()
SIGN(x) == IF x > 0 THEN 1 ELSE IF x < 0 THEN 0 - 1 ELSE 0

\* Variant: (a >= b) - (a < b), a draw taken for a home win.
PySign_ge(a, b) == (IF a >= b THEN 1 ELSE 0) - (IF a < b THEN 1 ELSE 0)

\* Python: (a > b) - (a < b)
PySign(a, b) == (IF a > b THEN 1 ELSE 0) - (IF a < b THEN 1 ELSE 0)

\* Variant: the exact tier decided on the first score alone.
_calculate_points_first_score(real1, real2, pred1, pred2) ==
    IF real1 = pred1 THEN exact_points
    ELSE LET real_sign == PySign(real1, real2)
             pred_sign == PySign(pred1, pred2)
         IN IF (real1 - real2) = (pred1 - pred2) \/ real_sign = pred_sign
            THEN result_points
            ELSE 0

\* Variant: no outcome tier at all.
_calculate_points_exact_only(real1, real2, pred1, pred2) ==
    IF real1 = pred1 /\ real2 = pred2 THEN exact_points ELSE 0

\* Variant: the outcome tier decided on the goal difference alone.
_calculate_points_difference_only(real1, real2, pred1, pred2) ==
    IF real1 = pred1 /\ real2 = pred2 THEN exact_points
    ELSE IF (real1 - real2) = (pred1 - pred2) THEN result_points ELSE 0

\* storage._calculate_points with rules = (exact_points, result_points)
_calculate_points(real1, real2, pred1, pred2) ==
    IF real1 = pred1 /\ real2 = pred2 THEN exact_points
    ELSE LET real_sign == PySign(real1, real2)
             pred_sign == PySign(pred1, pred2)
         IN IF (real1 - real2) = (pred1 - pred2) \/ real_sign = pred_sign
            THEN result_points
            ELSE 0

\* The CASE expression of the leaderboard view for one joined row (p, m).
ViewCasePoints(p, m) ==
    IF m.status = "finished" /\ m.score1 # NULL /\ m.score2 # NULL
    THEN IF p.pred_score1 = m.score1 /\ p.pred_score2 = m.score2
         THEN exact_points
         ELSE IF (p.pred_score1 - p.pred_score2) = (m.score1 - m.score2)
                 \/ SIGN(p.pred_score1 - p.pred_score2) = SIGN(m.score1 - m.score2)
              THEN result_points
              ELSE 0
    ELSE 0

\* SELECT of the leaderboard view: predictions JOIN matches, GROUP BY user_id.
LeaderboardView(preds, ms) ==
    LET joined == {p \in preds : p.match_id \in DOMAIN ms}
        pts == [p \in joined |-> ViewCasePoints(p, ms[p.match_id])]
    IN {[user_id |-> u,
         points |-> SumOver({p \in joined : p.user_id = u}, pts)]
        : u \in {p.user_id : p \in joined}}

\* All orderings of a finite set as sequences (a SELECT without ORDER BY).
Orderings(S) ==
    {s \in [1..Cardinality(S) -> S] : \A i, j \in 1..Cardinality(S) : i # j => s[i] # s[j]}


\* Python None where a dict or a row object is expected.
None == [none |-> TRUE]

\* ADMIN_IDS of the bot's environment: the users that may add matches and
\* enter results.
AdminIds == {1}

\* Team names the callers pass (bot text input, import file).
TeamPairs == {<<"A", "B">>}

\* Team names of the lines of matches.txt: the pair the bot's matches carry
\* and one with another second team.
ImportTeamPairs == {<<"A", "B">>, <<"A", "C">>}

\* (status, score1, score2) of the lines of matches.txt the import tool reads:
\* pending and live matches without a score, finished matches with a score,
\* and a finished line whose score fields are "-".
ImportRows ==
    {<<"scheduled", NULL, NULL>>, <<"live", NULL, NULL>>, <<"finished", NULL, NULL>>}
    \cup {<<"finished", a, b>> : a, b \in Scores}

\* ------------------------------------------------------- storage functions
\* Each is one session_scope() transaction, given here as a function of the
\* tables it reads; the actions below apply them to the store.

\* storage._match_to_dict (started_at is carried by no engine operation)
_match_to_dict(id, m) ==
    [id |-> id, team1 |-> m.team1, team2 |-> m.team2,
     score1 |-> m.score1, score2 |-> m.score2, status |-> m.status]

\* Variant: the user row is written once and never updated.
_ensure_user_insert_only(us, user_id, username) ==
    IF user_id \notin DOMAIN us THEN us @@ (user_id :> username) ELSE us

\* storage._ensure_user
_ensure_user(us, user_id, username) ==
    IF user_id \notin DOMAIN us THEN us @@ (user_id :> username)
    ELSE IF username # "" /\ username # NoName /\ us[user_id] # username
         THEN [us EXCEPT ![user_id] = username]
         ELSE us

\* storage.ensure_user_record: the same logic, in a transaction of its own.
ensure_user_record(us, user_id, username) ==
    IF user_id \notin DOMAIN us THEN us @@ (user_id :> username)
    ELSE IF username # "" /\ username # NoName /\ us[user_id] # username
         THEN [us EXCEPT ![user_id] = username]
         ELSE us

\* The constraints of table predictions that make flush() raise
\* IntegrityError: primary key (user_id, match_id) and foreign key to
\* matches, as migration 0001 creates the table (the user row is inserted by
\* the same flush). The CHECK pred_score >= 0 constraints that class
\* Prediction declares are not in the migration, which is what creates the
\* schema, so the database does not enforce them.
\* Variant: table predictions without its primary key.
PrimaryKeyTaken_absent(preds, user_id, match_id) == FALSE

PrimaryKeyTaken(preds, user_id, match_id) ==
    \E p \in preds : p.user_id = user_id /\ p.match_id = match_id

IntegrityError(preds, ms, row) ==
    \/ PrimaryKeyTaken(preds, row.user_id, row.match_id)
    \/ row.match_id \notin DOMAIN ms

\* Variant: the user row written by the failed call stays (the user
\* statement committed on its own).
append_prediction_keep_user(preds, us, ms, match_id, user_id, username, score1, score2) ==
    LET us2 == _ensure_user(us, user_id, username)
        row == [user_id |-> user_id, match_id |-> match_id,
                pred_score1 |-> score1, pred_score2 |-> score2]
    IN IF IntegrityError(preds, ms, row)
       THEN [exc |-> "prediction_exists", users |-> us2, predictions |-> preds]
       ELSE [exc |-> "", users |-> us2, predictions |-> preds \cup {row}]

\* Variant: a duplicate submission overwrites the stored row (an upsert).
append_prediction_overwrite(preds, us, ms, match_id, user_id, username, score1, score2) ==
    LET us2 == _ensure_user(us, user_id, username)
        row == [user_id |-> user_id, match_id |-> match_id,
                pred_score1 |-> score1, pred_score2 |-> score2]
        kept == {p \in preds : ~(p.user_id = user_id /\ p.match_id = match_id)}
    IN IF match_id \notin DOMAIN ms
       THEN [exc |-> "prediction_exists", users |-> us, predictions |-> preds]
       ELSE [exc |-> "", users |-> us2, predictions |-> kept \cup {row}]

\* storage.append_prediction: [exc, users, predictions] after the call.
append_prediction(preds, us, ms, match_id, user_id, username, score1, score2) ==
    LET us2 == _ensure_user(us, user_id, username)
        row == [user_id |-> user_id, match_id |-> match_id,
                pred_score1 |-> score1, pred_score2 |-> score2]
    IN IF IntegrityError(preds, ms, row)
       THEN [exc |-> "prediction_exists", users |-> us, predictions |-> preds]
       ELSE [exc |-> "", users |-> us2, predictions |-> preds \cup {row}]

\* Variant: a result for an unknown id creates the match (an upsert) instead
\* of returning None.
update_match_result_create(ms, match_id, score1, score2) ==
    LET m2 == IF match_id \in DOMAIN ms
              THEN [ms[match_id] EXCEPT !.score1 = score1, !.score2 = score2,
                                        !.status = "finished"]
              ELSE [team1 |-> "", team2 |-> "", score1 |-> score1,
                    score2 |-> score2, status |-> "finished"]
    IN [val |-> _match_to_dict(match_id, m2),
        matches |-> IF match_id \in DOMAIN ms
                    THEN [ms EXCEPT ![match_id] = m2]
                    ELSE ms @@ (match_id :> m2)]

\* Variant: a result entered for a match that is already finished is added
\* to the stored score instead of replacing it.
update_match_result_accumulate(ms, match_id, score1, score2) ==
    IF match_id \notin DOMAIN ms THEN [val |-> None, matches |-> ms]
    ELSE LET old == ms[match_id]
             again == old.status = "finished" /\ old.score1 # NULL /\ old.score2 # NULL
             m2 == [old EXCEPT !.score1 = IF again THEN old.score1 + score1 ELSE score1,
                               !.score2 = IF again THEN old.score2 + score2 ELSE score2,
                               !.status = "finished"]
         IN [val |-> _match_to_dict(match_id, m2),
             matches |-> [ms EXCEPT ![match_id] = m2]]

\* Variant: a result entered for a match that is already finished is ignored.
update_match_result_keep_first(ms, match_id, score1, score2) ==
    IF match_id \notin DOMAIN ms THEN [val |-> None, matches |-> ms]
    ELSE IF ms[match_id].status = "finished"
         THEN [val |-> _match_to_dict(match_id, ms[match_id]), matches |-> ms]
         ELSE LET m2 == [ms[match_id] EXCEPT !.score1 = score1, !.score2 = score2,
                                             !.status = "finished"]
              IN [val |-> _match_to_dict(match_id, m2),
                  matches |-> [ms EXCEPT ![match_id] = m2]]

\* storage.update_match_result: [val, matches] after the call.
update_match_result(ms, match_id, score1, score2) ==
    IF match_id \notin DOMAIN ms THEN [val |-> None, matches |-> ms]
    ELSE LET m2 == [ms[match_id] EXCEPT !.score1 = score1, !.score2 = score2,
                                        !.status = "finished"]
         IN [val |-> _match_to_dict(match_id, m2),
             matches |-> [ms EXCEPT ![match_id] = m2]]

\* Variant: upsert without the guard on the teams of a finished match.
upsert_match_unguarded(ms, match_id, team1, team2, status, score1, score2) ==
    LET m2 == [team1 |-> team1, team2 |-> team2, score1 |-> score1,
               score2 |-> score2, status |-> status]
    IN [exc |-> "", val |-> _match_to_dict(match_id, m2),
        matches |-> IF match_id \in DOMAIN ms
                    THEN [ms EXCEPT ![match_id] = m2]
                    ELSE ms @@ (match_id :> m2)]

\* storage.upsert_match: [exc, val, matches] after the call.
upsert_match(ms, match_id, team1, team2, status, score1, score2) ==
    LET m2 == [team1 |-> team1, team2 |-> team2, score1 |-> score1,
               score2 |-> score2, status |-> status]
    IN IF match_id \notin DOMAIN ms
       THEN [exc |-> "", val |-> _match_to_dict(match_id, m2),
             matches |-> ms @@ (match_id :> m2)]
       ELSE IF ms[match_id].status = "finished"
               /\ (ms[match_id].team1 # team1 \/ ms[match_id].team2 # team2)
            THEN [exc |-> "Cannot change teams of finished match", val |-> None,
                  matches |-> ms]
            ELSE [exc |-> "", val |-> _match_to_dict(match_id, m2),
                  matches |-> [ms EXCEPT ![match_id] = m2]]

\* storage.add_match: the id comes from the sequence of matches.id, which
\* explicit-id inserts (upsert_match) do not advance; an id already taken
\* violates the primary key and the transaction is rolled back.
add_match(ms, seq, team1, team2) ==
    LET id == seq + 1
        m2 == [team1 |-> team1, team2 |-> team2, score1 |-> NULL,
               score2 |-> NULL, status |-> "scheduled"]
    IN IF id \in DOMAIN ms
       THEN [exc |-> "IntegrityError", val |-> None, matches |-> ms]
       ELSE [exc |-> "", val |-> _match_to_dict(id, m2), matches |-> ms @@ (id :> m2)]

RECURSIVE OrderById(_)
\* ORDER BY Match.id over a set of ids: the ids as an ascending sequence.
OrderById(ids) ==
    IF ids = {} THEN <<>>
    ELSE LET least == CHOOSE i \in ids : \A j \in ids : i <= j
         IN <<least>> \o OrderById(ids \ {least})

\* WHERE Match.status == "scheduled" AND Match.id NOT IN (SELECT match_id
\* FROM predictions WHERE user_id = :user_id)
ScheduledUnpredicted(ms, preds, user_id) ==
    LET sub == {p.match_id : p \in {q \in preds : q.user_id = user_id}}
    IN {id \in DOMAIN ms : ms[id].status = "scheduled" /\ id \notin sub}

\* Variant: the first scheduled match, predicted by the user or not.
get_next_match_for_prediction_any_scheduled(ms, preds, user_id) ==
    LET rows == OrderById({id \in DOMAIN ms : ms[id].status = "scheduled"})
    IN IF rows = <<>> THEN None ELSE _match_to_dict(rows[1], ms[rows[1]])

\* storage.get_next_match_for_prediction: .first() of the ordered query
get_next_match_for_prediction(ms, preds, user_id) ==
    LET rows == OrderById(ScheduledUnpredicted(ms, preds, user_id))
    IN IF rows = <<>> THEN None ELSE _match_to_dict(rows[1], ms[rows[1]])

\* Variant: the query without its NOT IN (predictions of the user) filter.
get_pending_matches_for_user_all(ms, preds, user_id) ==
    LET rows == OrderById({id \in DOMAIN ms : ms[id].status = "scheduled"})
    IN [i \in 1..Len(rows) |-> _match_to_dict(rows[i], ms[rows[i]])]

\* storage.get_pending_matches_for_user: .all() of the ordered query
get_pending_matches_for_user(ms, preds, user_id) ==
    LET rows == OrderById(ScheduledUnpredicted(ms, preds, user_id))
    IN [i \in 1..Len(rows) |-> _match_to_dict(rows[i], ms[rows[i]])]

\* Variant: settlement that lists only the predictions that earned points.
settle_match_points_winners_only(preds, us, match_id, score1, score2) ==
    {<<p.user_id,
       IF p.user_id \in DOMAIN us THEN us[p.user_id] ELSE "",
       _calculate_points(score1, score2, p.pred_score1, p.pred_score2)>>
     : p \in {q \in preds : /\ q.match_id = match_id
                            /\ _calculate_points(score1, score2,
                                                 q.pred_score1, q.pred_score2) > 0}}

\* storage.settle_match_points: the awarded tuples (user_id, username,
\* points), one per prediction row of the match; their order is that of a
\* SELECT without ORDER BY.
settle_match_points(preds, us, match_id, score1, score2) ==
    {<<p.user_id,
       IF p.user_id \in DOMAIN us THEN us[p.user_id] ELSE "",
       _calculate_points(score1, score2, p.pred_score1, p.pred_score2)>>
     : p \in {q \in preds : q.match_id = match_id}}

\* Variant: settlement that also writes the scores it was given onto the
\* match.
settle_match_points_session_storing(ms, preds, us, match_id, score1, score2) ==
    [matches |-> IF match_id \in DOMAIN ms
                 THEN [ms EXCEPT ![match_id].score1 = score1,
                                 ![match_id].score2 = score2,
                                 ![match_id].status = "finished"]
                 ELSE ms,
     users |-> us,
     predictions |-> preds,
     awarded |-> settle_match_points(preds, us, match_id, score1, score2)]

\* storage.settle_match_points as a session: the tables it commits and the
\* list it returns. The session only selects.
settle_match_points_session(ms, preds, us, match_id, score1, score2) ==
    [matches |-> ms,
     users |-> us,
     predictions |-> preds,
     awarded |-> settle_match_points(preds, us, match_id, score1, score2)]

\* bot.handle_admin_result_input, the storage calls of one result entry:
\* [matches, updated, awarded] with awarded the set of tuples settlement
\* returned (empty when update_match_result returned None and settlement
\* was skipped).
handle_admin_result_input(ms, preds, us, match_id, score1, score2) ==
    LET updated_match == update_match_result(ms, match_id, score1, score2)
    IN IF updated_match.val = None
       THEN [matches |-> updated_match.matches, updated |-> None, awarded |-> {}]
       ELSE [matches |-> updated_match.matches, updated |-> updated_match.val,
             awarded |-> settle_match_points(preds, us, match_id, score1, score2)]

\* Variant: a refresh that adds the freshly computed points to the totals
\* already in the view (a running total).
refresh_leaderboard_accumulate(preds, ms) ==
    LET fresh == LeaderboardView(preds, ms)
    IN {[user_id |-> l.user_id,
         points |-> l.points
                    + SumOver({o \in leaderboard : o.user_id = l.user_id},
                              [o \in leaderboard |-> o.points])]
        : l \in fresh}

\* Variant: the read served from the view as it stands, with no refresh.
refresh_leaderboard_skipped(preds, ms) == leaderboard

\* storage.refresh_leaderboard: REFRESH MATERIALIZED VIEW leaderboard
refresh_leaderboard(preds, ms) == LeaderboardView(preds, ms)

\* storage.leaderboard_rows after the refresh: the view LEFT JOIN users,
\* ORDER BY points DESC (rows of equal points in any order).
leaderboard_rows(lb, us) ==
    LET rows == {<<l.user_id,
                   IF l.user_id \in DOMAIN us THEN us[l.user_id] ELSE NoName,
                   l.points>> : l \in lb}
    IN {s \in Orderings(rows) :
          \A i, j \in 1..Len(s) : i < j => s[i][3] >= s[j][3]}


\* ----------------------------------------------------------------- actions
\* The last call as its caller saw it: function, arguments, exception raised
\* ("" when none) and value returned.
Returned(op, args, exc, val) == [op |-> op, args |-> args, exc |-> exc, val |-> val]

CalcIdle == [real1 |-> 0, real2 |-> 0, pred1 |-> 0, pred2 |-> 0, points |-> NULL]
TxIdle == [p \in Procs |-> [pc |-> "idle"]]

\* One more call of the store's interface, while the bound allows it.
Call == nops < MaxOps /\ nops' = nops + 1

\* bot.start: storage.ensure_user_record(user.id, username)
DoEnsureUserRecord(user_id, username) ==
    /\ Call
    /\ users' = ensure_user_record(users, user_id, username)
    /\ ret' = Returned("ensure_user_record", <<user_id, username>>, "", None)
    /\ UNCHANGED <<matches, predictions, match_seq, leaderboard, calc, tx>>

\* bot.text_router for a message of an admin in state confirm_final:
\* storage.ensure_user_record for the sender, then
\* handle_admin_add_match_input calls storage.add_match.
DoAddMatch(admin, team1, team2) ==
    /\ Call
    /\ match_seq < MaxMatch
    /\ users' = ensure_user_record(users, admin, NameOf[admin])
    /\ LET r == add_match(matches, match_seq, team1, team2)
       IN /\ matches' = r.matches
          /\ ret' = Returned("add_match", <<team1, team2>>, r.exc, r.val)
    /\ match_seq' = match_seq + 1
    /\ UNCHANGED <<predictions, leaderboard, calc, tx>>

\* tools/import_from_txt.parse_matches, one line: storage.upsert_match
DoUpsertMatch(match_id, team1, team2, status, score1, score2) ==
    /\ Call
    /\ LET r == upsert_match(matches, match_id, team1, team2, status, score1, score2)
       IN /\ matches' = r.matches
          /\ ret' = Returned("upsert_match", <<match_id, team1, team2, status, score1, score2>>, r.exc, r.val)
    /\ UNCHANGED <<users, predictions, match_seq, leaderboard, calc, tx>>

\* tools/import_from_txt.parse_predictions, one line: storage.append_prediction
\* with the ValueError caught (bot.handle_prediction_input makes the same
\* call after its own checks).
DoAppendPrediction(match_id, user_id, username, score1, score2) ==
    /\ Call
    /\ LET r == append_prediction(predictions, users, matches,
                                  match_id, user_id, username, score1, score2)
       IN /\ predictions' = r.predictions
          /\ users' = r.users
          /\ ret' = Returned("append_prediction", <<match_id, user_id, username, score1, score2>>,
                          r.exc, None)
    /\ UNCHANGED <<matches, match_seq, leaderboard, calc, tx>>

\* bot.text_router for a message of an admin in mode entering_result:
\* storage.ensure_user_record for the sender, then handle_admin_result_input
\* with a parsed score: update_match_result, and unless it returned None,
\* settle_match_points with the same arguments. match_id is the id kept in
\* user_data["admin_result_match"]. The field previous is the stored row as
\* it was before the call (None when the id is unknown); no caller sees it,
\* it is kept to tell a first entry from a re-entry.
DoEnterResult(admin, match_id, score1, score2) ==
    LET us2 == ensure_user_record(users, admin, NameOf[admin])
        r == handle_admin_result_input(matches, predictions, us2,
                                       match_id, score1, score2)
        previous == IF match_id \in DOMAIN matches
                    THEN _match_to_dict(match_id, matches[match_id]) ELSE None
    IN /\ Call
       /\ users' = us2
       /\ matches' = r.matches
       /\ \E awarded \in Orderings(r.awarded) :
             ret' = Returned("handle_admin_result_input",
                             <<match_id, score1, score2>>, "",
                             [updated |-> r.updated, awarded |-> awarded,
                              previous |-> previous])
       /\ UNCHANGED <<predictions, match_seq, leaderboard, calc, tx>>

\* import_from_txt.main, last step: storage.refresh_leaderboard
DoRefreshLeaderboard ==
    /\ Call
    /\ leaderboard' = refresh_leaderboard(predictions, matches)
    /\ ret' = Returned("refresh_leaderboard", <<>>, "", None)
    /\ UNCHANGED <<matches, users, predictions, match_seq, calc, tx>>

\* app.webapp_leaderboard: storage.leaderboard_rows (refresh, then SELECT)
DoLeaderboardRows ==
    /\ Call
    /\ leaderboard' = refresh_leaderboard(predictions, matches)
    /\ \E rows \in leaderboard_rows(leaderboard', users) :
          ret' = Returned("leaderboard_rows", <<>>, "", rows)
    /\ UNCHANGED <<matches, users, predictions, match_seq, calc, tx>>

Init ==
    /\ matches = <<>>
    /\ users = <<>>
    /\ predictions = {}
    /\ match_seq = 0
    /\ leaderboard = {}
    /\ ret = Returned("init", <<>>, "", None)
    /\ calc = CalcIdle
    /\ tx = TxIdle
    /\ nops = 0

Next ==
    \/ \E u \in UserIds : DoEnsureUserRecord(u, NameOf[u])
    \/ \E a \in AdminIds, t \in TeamPairs : DoAddMatch(a, t[1], t[2])
    \/ \E id \in MatchIds, t \in TeamPairs, r \in ImportRows :
          DoUpsertMatch(id, t[1], t[2], r[1], r[2], r[3])
    \/ \E m \in MatchIds, u \in UserIds, s1, s2 \in Scores :
          DoAppendPrediction(m, u, NameOf[u], s1, s2)
    \/ \E a \in AdminIds, m \in MatchIds, s1, s2 \in Scores :
          DoEnterResult(a, m, s1, s2)
    \/ DoRefreshLeaderboard
    \/ DoLeaderboardRows

Spec == Init /\ [][Next]_vars


\* ------------------------------- the match registry and the prediction queue
\* app.webapp_matches: storage.get_pending_matches_for_user(user_id)
DoGetPendingMatchesForUser(user_id) ==
    /\ Call
    /\ ret' = Returned("get_pending_matches_for_user", <<user_id>>, "",
                       get_pending_matches_for_user(matches, predictions, user_id))
    /\ UNCHANGED <<matches, users, predictions, match_seq, leaderboard, calc, tx>>

\* bot.text_router for the "make a prediction" button while the window is
\* open: storage.ensure_user_record for the sender, then
\* start_prediction_flow calls storage.get_next_match_for_prediction(user.id)
DoGetNextMatchForPrediction(user_id) ==
    /\ Call
    /\ users' = ensure_user_record(users, user_id, NameOf[user_id])
    /\ ret' = Returned("get_next_match_for_prediction", <<user_id>>, "",
                       get_next_match_for_prediction(matches, predictions, user_id))
    /\ UNCHANGED <<matches, predictions, match_seq, leaderboard, calc, tx>>

\* The registry operations with the import tool reading lines of either team
\* pair, the submission of predictions (whose scores play no part here) and
\* the two queue queries.
NextRegistry ==
    \/ \E a \in AdminIds, t \in TeamPairs : DoAddMatch(a, t[1], t[2])
    \/ \E id \in MatchIds, t \in ImportTeamPairs, r \in ImportRows :
          DoUpsertMatch(id, t[1], t[2], r[1], r[2], r[3])
    \/ \E a \in AdminIds, m \in MatchIds, s1, s2 \in Scores :
          DoEnterResult(a, m, s1, s2)
    \/ \E m \in MatchIds, u \in UserIds :
          DoAppendPrediction(m, u, NameOf[u], 0, 0)
    \/ \E u \in UserIds : DoGetPendingMatchesForUser(u)
    \/ \E u \in UserIds : DoGetNextMatchForPrediction(u)

SpecRegistry == Init /\ [][NextRegistry]_vars

\* ------------------------------------------- the scoring function on its own
InitCalc ==
    /\ matches = <<>>
    /\ users = <<>>
    /\ predictions = {}
    /\ match_seq = 0
    /\ leaderboard = {}
    /\ ret = Returned("init", <<>>, "", None)
    /\ calc \in [real1 : CalcScores, real2 : CalcScores,
                 pred1 : CalcScores, pred2 : CalcScores, points : {NULL}]
    /\ tx = TxIdle
    /\ nops = 0

Calculate ==
    /\ calc.points = NULL
    /\ calc' = [calc EXCEPT !.points =
                   _calculate_points(calc.real1, calc.real2, calc.pred1, calc.pred2)]
    /\ UNCHANGED <<matches, users, predictions, match_seq, leaderboard, ret, tx, nops>>

NextCalc == Calculate

SpecCalc == InitCalc /\ [][NextCalc]_vars

\* ------------------------------------------------ the prediction window gate
\* A datetime is [tz, day, sec, dst]: day and sec (of the day) are the fields
\* of the datetime object, tz its tzinfo: "naive" (none), "kyiv" (KYIV_TZ, as
\* datetime.now(KYIV_TZ) gives) or "utc"; dst tells whether summer time is in
\* force in Kyiv at that instant.
SecondsPerDay == 24 * 3600

\* ZoneInfo("Europe/Kyiv"): UTC+2, UTC+3 in summer
KyivUtcOffset(dst) == IF dst THEN 3 * 3600 ELSE 2 * 3600

\* now.replace(tzinfo=KYIV_TZ) for a naive datetime (fields kept),
\* now.astimezone(KYIV_TZ) for an aware one (same instant, Kyiv fields)
InKyiv(now) ==
    IF now.tz = "utc"
    THEN LET total == now.day * SecondsPerDay + now.sec + KyivUtcOffset(now.dst)
         IN [tz |-> "kyiv", day |-> total \div SecondsPerDay,
             sec |-> total % SecondsPerDay, dst |-> now.dst]
    ELSE [now EXCEPT !.tz = "kyiv"]

\* a <= b for two datetimes of the same tzinfo object: the fields compared
DatetimeLE(a, b) == a.day < b.day \/ (a.day = b.day /\ a.sec <= b.sec)

\* bot.PREDICTION_DEADLINE = time(17, 59)
PREDICTION_DEADLINE == 17 * 3600 + 59 * 60

\* app.PREDICTION_DEADLINE = dt_time(17, 59)
app_PREDICTION_DEADLINE == 17 * 3600 + 59 * 60

\* Variant: a window check that never closes.
is_prediction_window_open_always(current_time) == TRUE

\* Variant: the deadline minute itself already closed (now < deadline).
is_prediction_window_open_strict(current_time) ==
    LET now_kyiv == InKyiv(current_time)
        deadline == [now_kyiv EXCEPT !.sec = PREDICTION_DEADLINE]
    IN DatetimeLE(now_kyiv, deadline) /\ now_kyiv # deadline

\* bot.is_prediction_window_open
is_prediction_window_open(current_time) ==
    LET now_kyiv == InKyiv(current_time)
        deadline == [now_kyiv EXCEPT !.sec = PREDICTION_DEADLINE]
    IN DatetimeLE(now_kyiv, deadline)

\* app._is_prediction_window_open
_is_prediction_window_open(now) ==
    LET now_kyiv == InKyiv(now)
        deadline == [now_kyiv EXCEPT !.sec = app_PREDICTION_DEADLINE]
    IN DatetimeLE(now_kyiv, deadline)

\* Seconds of the day the checks are made at: around midnight, around 17:59
\* Kyiv time, and around the UTC times that are 17:59 in Kyiv.
WindowSeconds ==
    {1, SecondsPerDay - 1}
    \cup {PREDICTION_DEADLINE - d : d \in {0 - 1, 0, 1}}
    \cup {PREDICTION_DEADLINE - KyivUtcOffset(dst) - d : dst \in BOOLEAN, d \in {0 - 1, 0, 1}}

Instants ==
    [tz : {"naive", "kyiv", "utc"}, day : {0, 1}, sec : WindowSeconds, dst : BOOLEAN]

InitWindow ==
    /\ matches = <<>>
    /\ users = <<>>
    /\ predictions = {}
    /\ match_seq = 0
    /\ leaderboard = {}
    /\ ret = Returned("init", <<>>, "", None)
    /\ calc \in [now : Instants, asked : {{}}, bot : {FALSE}, app : {FALSE}]
    /\ tx = TxIdle
    /\ nops = 0

\* The bot asks whether the window is open at calc.now.
CheckWindowBot ==
    /\ "bot" \notin calc.asked
    /\ calc' = [calc EXCEPT !.asked = @ \cup {"bot"},
                            !.bot = is_prediction_window_open(calc.now)]
    /\ UNCHANGED <<matches, users, predictions, match_seq, leaderboard, ret, tx, nops>>

\* The API asks whether the window is open at calc.now.
CheckWindowApp ==
    /\ "app" \notin calc.asked
    /\ calc' = [calc EXCEPT !.asked = @ \cup {"app"},
                            !.app = _is_prediction_window_open(calc.now)]
    /\ UNCHANGED <<matches, users, predictions, match_seq, leaderboard, ret, tx, nops>>

NextWindow == CheckWindowBot \/ CheckWindowApp

SpecWindow == InitWindow /\ [][NextWindow]_vars

\* ----------------------------------------- the entry points of a prediction
\* storage.get_user_prediction: whether a row was found
get_user_prediction(preds, match_id, user_id) ==
    \E p \in preds : p.user_id = user_id /\ p.match_id = match_id

\* storage.find_match
find_match(ms, match_id) ==
    IF match_id \in DOMAIN ms THEN _match_to_dict(match_id, ms[match_id]) ELSE None

\* A text message is the sequence of its characters.
Digits == {"0", "1", "9"}

DigitValue(c) == IF c = "0" THEN 0 ELSE IF c = "1" THEN 1 ELSE 9

RECURSIVE int(_)
\* Python int() of a string of decimal digits
int(str) ==
    IF Len(str) = 1 THEN DigitValue(str[1])
    ELSE 10 * int(SubSeq(str, 1, Len(str) - 1)) + DigitValue(str[Len(str)])

\* str.isdigit(): not empty and nothing but digits
isdigit(str) == Len(str) > 0 /\ \A i \in 1..Len(str) : str[i] \in Digits

\* bot.parse_score: None, or the two numbers around the first colon
parse_score(text) ==
    LET cleaned == SelectSeq(text, LAMBDA c : c # " ")
        colons == {i \in 1..Len(cleaned) : cleaned[i] = ":"}
    IN IF colons = {} THEN None
       ELSE LET at == CHOOSE i \in colons : \A j \in colons : i <= j
                left == SubSeq(cleaned, 1, at - 1)
                right == SubSeq(cleaned, at + 1, Len(cleaned))
            IN IF ~(isdigit(left) /\ isdigit(right)) THEN None
               ELSE [score1 |-> int(left), score2 |-> int(right)]

\* Texts a user answers the score prompt with.
ScoreTexts ==
    {<<"0", ":", "9", "9">>, <<"1", "0", "0", ":", "0">>, <<"1", " ", ":", " ", "0">>,
     <<"-", "1", ":", "0">>, <<"1", "0">>}

\* Score fields of the lines of predictions.txt.
ImportedScores == {<<0, 99>>, <<100, 0>>}

\* score1 and score2 of the API's payload.
PayloadScores == {<<0, 99>>, <<100, 0>>, <<0 - 1, 0>>}

\* Username fields of the lines of predictions.txt.
ImportNames == Names \cup {""}

\* Instants the handlers run at (Kyiv time, as datetime.now(KYIV_TZ) gives):
\* before and after the cutoff.
HandlerInstants ==
    {[tz |-> "kyiv", day |-> 0, sec |-> PREDICTION_DEADLINE + d, dst |-> FALSE]
        : d \in {0 - 1, 1}}

\* bot.start_prediction_flow after a reply, the window being open: the value
\* of user_data["awaiting_prediction_match"] it leaves, NULL when popped.
start_prediction_flow(ms, preds, user_id) ==
    LET match == get_next_match_for_prediction(ms, preds, user_id)
    IN IF match = None THEN NULL ELSE match.id

\* bot.text_router for a text of a user whose user_data holds
\* awaiting_prediction_match = match_id (a match that was stored when the
\* user was prompted): storage.ensure_user_record for the sender, then
\* handle_prediction_input at time now. ret.val is [reply, awaiting]: which
\* reply the user got and what awaiting_prediction_match holds afterwards.
DoHandlePredictionInput(user_id, match_id, text, now) ==
    LET us2 == ensure_user_record(users, user_id, NameOf[user_id])
        parsed == parse_score(text)
        r == append_prediction(predictions, us2, matches, match_id, user_id,
                               NameOf[user_id], parsed.score1, parsed.score2)
        args == <<user_id, match_id, text, now>>
        reply(us, preds, exc, text_, awaiting) ==
            /\ users' = us
            /\ predictions' = preds
            /\ ret' = Returned("handle_prediction_input", args, exc,
                               [reply |-> text_, awaiting |-> awaiting])
    IN /\ Call
       /\ match_id \in DOMAIN matches
       /\ IF ~is_prediction_window_open(now)
          THEN reply(us2, predictions, "", "window_closed", NULL)
          ELSE IF parsed = None
          THEN reply(us2, predictions, "", "bad_format", match_id)
          ELSE IF get_user_prediction(predictions, match_id, user_id)
          THEN reply(us2, predictions, "", "already_predicted",
                     start_prediction_flow(matches, predictions, user_id))
          ELSE IF r.exc # ""
          THEN \* ValueError leaves the handler: nothing popped, no reply
               reply(r.users, r.predictions, r.exc, "", match_id)
          ELSE reply(r.users, r.predictions, "", "saved",
                     start_prediction_flow(matches, r.predictions, user_id))
       /\ UNCHANGED <<matches, match_seq, leaderboard, calc, tx>>

\* A JSON response of the API: HTTP status, the error code ("" when ok is
\* true) and the storage functions the handler called, in order.
Response(status, error, calls) == [status |-> status, error |-> error, calls |-> calls]

\* app.webapp_prediction after the signature check, at time now, for the
\* verified user_id: the store it leaves, the response, and the exception
\* that left the handler, if any (the client then gets status 500).
webapp_prediction(preds, us, ms, user_id, match_id, score1, score2, now) ==
    LET match == find_match(ms, match_id)
        r == append_prediction(preds, us, ms, match_id, user_id,
                               NameOf[user_id], score1, score2)
        error(status, code, calls) ==
            [users |-> us, predictions |-> preds, exc |-> "",
             val |-> Response(status, code, calls)]
    IN IF ~_is_prediction_window_open(now) THEN error(400, "deadline_passed", <<>>)
       ELSE IF ~(0 <= score1 /\ score1 <= 99 /\ 0 <= score2 /\ score2 <= 99)
       THEN error(400, "scores_out_of_range", <<>>)
       ELSE IF match = None \/ match.status # "pending"
       THEN error(400, "match_not_available", <<"find_match">>)
       ELSE IF get_user_prediction(preds, match_id, user_id)
       THEN error(409, "already_predicted", <<"find_match", "get_user_prediction">>)
       ELSE [users |-> r.users, predictions |-> r.predictions, exc |-> r.exc,
             val |-> Response(IF r.exc = "" THEN 200 ELSE 500, "",
                              <<"find_match", "get_user_prediction",
                                "append_prediction">>)]

\* app.webapp_prediction for a request whose initData verifies as user_id
DoWebappPrediction(user_id, match_id, score1, score2, now) ==
    LET r == webapp_prediction(predictions, users, matches, user_id, match_id,
                               score1, score2, now)
    IN /\ Call
       /\ users' = r.users
       /\ predictions' = r.predictions
       /\ ret' = Returned("webapp_prediction", <<user_id, match_id, score1, score2, now>>,
                          r.exc, r.val)
       /\ UNCHANGED <<matches, match_seq, leaderboard, calc, tx>>

\* The store the submissions start from: some of the matches stored, all
\* scheduled, no user and no prediction yet.
InitSubmit ==
    /\ \E S \in SUBSET MatchIds :
          matches = [id \in S |->
                        [team1 |-> "A", team2 |-> "B", score1 |-> NULL,
                         score2 |-> NULL, status |-> "scheduled"]]
    /\ users = <<>>
    /\ predictions = {}
    /\ match_seq = 0
    /\ leaderboard = {}
    /\ ret = Returned("init", <<>>, "", None)
    /\ calc = CalcIdle
    /\ tx = TxIdle
    /\ nops = 0

\* The three entry points of a prediction and the bot's /start, under
\* whatever display name the user carries, MaxSubmits calls in all.
NextSubmit ==
    \/ /\ nops < MaxSubmits
       /\ \E u \in UserIds, n \in Names : DoEnsureUserRecord(u, n)
    \/ /\ nops < MaxSubmits
       /\ \E m \in MatchIds, u \in UserIds, n \in ImportNames, sc \in ImportedScores :
             DoAppendPrediction(m, u, n, sc[1], sc[2])
    \/ /\ nops < MaxSubmits
       /\ \E u \in UserIds, m \in MatchIds, text \in ScoreTexts, now \in HandlerInstants :
             DoHandlePredictionInput(u, m, text, now)
    \/ /\ nops < MaxSubmits
       /\ \E u \in UserIds, m \in MatchIds, sc \in PayloadScores, now \in HandlerInstants :
             DoWebappPrediction(u, m, sc[1], sc[2], now)

SpecSubmit == InitSubmit /\ [][NextSubmit]_vars

\* ------------------------- the bot's handler beside the other entry points
\* bot.handle_prediction_input reads the ledger (get_user_prediction) and
\* then writes it (append_prediction) in two separate sessions; the import
\* tool and the API are other operating-system processes on the same
\* database, so their calls can land between the two. The bot itself
\* handles one update at a time (Application.builder().build() without
\* concurrent_updates). tx[BotProc] is the position of the bot's handler.
BotProc == 1

\* The instant the handlers of this specification run at: the window is open.
OpenInstant == [tz |-> "kyiv", day |-> 0, sec |-> PREDICTION_DEADLINE - 1, dst |-> FALSE]

\* bot.text_router and handle_prediction_input up to and including
\* storage.get_user_prediction, for a well-formed text in an open window.
BotCheck(user_id, match_id, text) ==
    LET us2 == ensure_user_record(users, user_id, NameOf[user_id])
        parsed == parse_score(text)
        args == <<user_id, match_id, text, OpenInstant>>
    IN /\ Call
       /\ tx[BotProc].pc = "idle"
       /\ match_id \in DOMAIN matches
       /\ is_prediction_window_open(OpenInstant)
       /\ parsed # None
       /\ users' = us2
       /\ IF get_user_prediction(predictions, match_id, user_id)
          THEN /\ ret' = Returned("handle_prediction_input", args, "",
                            [reply |-> "already_predicted",
                             awaiting |-> start_prediction_flow(matches, predictions, user_id)])
               /\ tx' = tx
          ELSE /\ ret' = ret
               /\ tx' = [tx EXCEPT ![BotProc] =
                            [pc |-> "append", args |-> args,
                             score1 |-> parsed.score1, score2 |-> parsed.score2]]
       /\ UNCHANGED <<matches, predictions, match_seq, leaderboard, calc>>

\* handle_prediction_input from storage.append_prediction to its end.
BotAppend ==
    /\ tx[BotProc].pc = "append"
    /\ LET user_id == tx[BotProc].args[1]
           match_id == tx[BotProc].args[2]
           r == append_prediction(predictions, users, matches, match_id, user_id,
                                  NameOf[user_id], tx[BotProc].score1, tx[BotProc].score2)
       IN /\ users' = r.users
          /\ predictions' = r.predictions
          /\ ret' = IF r.exc # ""
                    THEN Returned("handle_prediction_input", tx[BotProc].args, r.exc,
                                  [reply |-> "", awaiting |-> match_id])
                    ELSE Returned("handle_prediction_input", tx[BotProc].args, "",
                                  [reply |-> "saved",
                                   awaiting |-> start_prediction_flow(matches, r.predictions, user_id)])
    /\ tx' = [tx EXCEPT ![BotProc] = [pc |-> "idle"]]
    /\ UNCHANGED <<matches, match_seq, leaderboard, calc, nops>>

\* The bot's handler in two steps, import lines and API requests in between,
\* MaxSubmits calls in all.
NextRace ==
    \/ /\ nops < MaxSubmits
       /\ \E u \in UserIds, m \in MatchIds, text \in ScoreTexts : BotCheck(u, m, text)
    \/ BotAppend
    \/ /\ nops < MaxSubmits
       /\ \E m \in MatchIds, u \in UserIds, n \in ImportNames, sc \in ImportedScores :
             DoAppendPrediction(m, u, n, sc[1], sc[2])
    \/ /\ nops < MaxSubmits
       /\ \E u \in UserIds, m \in MatchIds, sc \in PayloadScores :
             DoWebappPrediction(u, m, sc[1], sc[2], OpenInstant)

SpecRace == InitSubmit /\ [][NextRace]_vars

\* ------------------------------------------------ app._top_with_user alone
\* The default of the parameter limit of app._top_with_user
TopLimit == 10

\* entry = {**row, "rank": idx}
RankedEntry(row, idx) ==
    [f \in DOMAIN row \cup {"rank"} |-> IF f = "rank" THEN idx ELSE row[f]]

\* Variant loop: the limit-th row already left out of top (idx < limit).
_top_with_user_below(rows, user_id, limit) ==
    [top |-> [i \in 1..(IF Len(rows) < limit - 1 THEN Len(rows)
                        ELSE IF limit < 1 THEN 0 ELSE limit - 1)
                 |-> RankedEntry(rows[i], i)],
     user_row |-> IF \E i \in 1..Len(rows) : rows[i].user_id = user_id
                  THEN LET i == CHOOSE k \in 1..Len(rows) :
                                   /\ rows[k].user_id = user_id
                                   /\ \A l \in 1..(k - 1) : rows[l].user_id # user_id
                       IN RankedEntry(rows[i], i)
                  ELSE None]

\* Variant loop: the user's row looked for among the top rows only.
_top_with_user_in_top(rows, user_id, limit) ==
    [top |-> [i \in 1..(IF Len(rows) < limit THEN Len(rows) ELSE limit)
                 |-> RankedEntry(rows[i], i)],
     user_row |-> IF \E i \in 1..Len(rows) : i <= limit /\ rows[i].user_id = user_id
                  THEN LET i == CHOOSE k \in 1..Len(rows) :
                                   /\ rows[k].user_id = user_id
                                   /\ \A l \in 1..(k - 1) : rows[l].user_id # user_id
                       IN RankedEntry(rows[i], i)
                  ELSE None]

\* The for loop of app._top_with_user from index idx on, top and user_row
\* being what the earlier rounds left.
RECURSIVE _top_with_user_loop(_, _, _, _, _, _)
_top_with_user_loop(rows, user_id, limit, idx, top, user_row) ==
    IF idx > Len(rows)
    THEN [top |-> top, user_row |-> user_row]
    ELSE LET entry == RankedEntry(rows[idx], idx)
         IN _top_with_user_loop(rows, user_id, limit, idx + 1,
                IF idx <= limit THEN Append(top, entry) ELSE top,
                IF rows[idx].user_id = user_id /\ user_row = None
                THEN entry ELSE user_row)

\* app._top_with_user
_top_with_user(rows, user_id, limit) ==
    _top_with_user_loop(rows, user_id, limit, 1, <<>>, None)

\* Sorted rows of n users, the user of position i being the shift-th next
\* after i (so that a position is not its user's id), points descending
\* with ties.
RowsOf(n, shift) ==
    [i \in 1..n |-> [user_id |-> ((i + shift - 1) % n) + 1, points |-> (n - i) \div 2]]

\* The arguments _top_with_user is applied to: up to MaxRows rows, a user
\* who may have no row, the default limit and a smaller one.
InitTop ==
    /\ \E n \in 0..MaxRows, shift \in 0..MaxRows, user_id \in 1..(MaxRows + 1),
          limit \in {3, TopLimit} :
          /\ shift < n \/ shift = 0
          /\ calc = [rows |-> RowsOf(n, shift), user_id |-> user_id,
                     limit |-> limit, out |-> None]
    /\ matches = <<>>
    /\ users = <<>>
    /\ predictions = {}
    /\ match_seq = 0
    /\ leaderboard = {}
    /\ ret = Returned("init", <<>>, "", None)
    /\ tx = TxIdle
    /\ nops = 0

\* top, user_row = _top_with_user(rows, user_id, limit)
DoTopWithUser ==
    /\ calc.out = None
    /\ calc' = [calc EXCEPT !.out = _top_with_user(calc.rows, calc.user_id, calc.limit)]
    /\ UNCHANGED <<matches, users, predictions, match_seq, leaderboard, ret, tx, nops>>

NextTop == DoTopWithUser

SpecTop == InitTop /\ [][NextTop]_vars

\* ------------------------------------------------------ the accuracy views
\* Fractions stand for PostgreSQL's float8 and numeric and for Python's float
\* and Decimal: [n, d] in lowest terms, d > 0. Rounding to the last binary
\* or decimal digit is not modelled.
RECURSIVE Gcd(_, _)
Gcd(a, b) == IF b = 0 THEN a ELSE Gcd(b, a % b)

Rat(n, d) == LET g == Gcd(n, d) IN [n |-> n \div g, d |-> d \div g]

RatAdd(x, y) == Rat(x.n * y.d + y.n * x.d, x.d * y.d)

RatSub(x, y) == Rat(x.n * y.d - y.n * x.d, x.d * y.d)

RatMul(x, y) == Rat(x.n * y.n, x.d * y.d)

RatDiv(x, y) == Rat(x.n * y.d, x.d * y.n)

RatLess(x, y) == x.n * y.d < y.n * x.d

RECURSIVE RatSum(_, _)
\* SUM(f(row)) over a set of rows, f a function row -> fraction
RatSum(S, f) ==
    IF S = {} THEN Rat(0, 1)
    ELSE LET x == CHOOSE y \in S : TRUE
         IN RatAdd(f[x], RatSum(S \ {x}, f))

\* SQL ABS and GREATEST on integers
ABS(x) == IF x < 0 THEN 0 - x ELSE x

GREATEST(a, b) == IF a > b THEN a ELSE b

\* FROM predictions p JOIN matches m ON m.id = p.match_id WHERE m.status =
\* 'finished': the predictions the result view groups.
ResultViewRows(preds, ms) ==
    {p \in preds : p.match_id \in DOMAIN ms /\ ms[p.match_id].status = "finished"}

\* ... WHERE m.status='finished' AND m.score1 IS NOT NULL AND m.score2 IS NOT
\* NULL: the predictions the goal view groups.
GoalViewRows(preds, ms) ==
    {p \in preds : /\ p.match_id \in DOMAIN ms
                   /\ ms[p.match_id].status = "finished"
                   /\ ms[p.match_id].score1 # NULL
                   /\ ms[p.match_id].score2 # NULL}

\* CASE WHEN m.status='finished' AND m.score1 IS NOT NULL AND m.score2 IS NOT
\* NULL AND SIGN(p.pred_score1 - p.pred_score2) = SIGN(m.score1 - m.score2)
\* THEN 1 ELSE 0 END
ResultCase(p, ms) ==
    LET m == ms[p.match_id]
    IN IF /\ m.status = "finished"
          /\ m.score1 # NULL
          /\ m.score2 # NULL
          /\ SIGN(p.pred_score1 - p.pred_score2) = SIGN(m.score1 - m.score2)
       THEN 1 ELSE 0

\* LEFT JOIN users u ON u.id = p.user_id: u.username
JoinedUsername(us, user_id) == IF user_id \in DOMAIN us THEN us[user_id] ELSE NoName

\* Variant: the sum divided as an integer (no ::float cast).
result_accuracy_sql_integer(correct, count) ==
    Rat((correct \div count) * 100, 1)

\* SUM(...)::float / NULLIF(COUNT(*),0) * 100 for a group of count > 0 rows
result_accuracy_sql(correct, count) ==
    RatMul(RatDiv(Rat(correct, 1), Rat(count, 1)), Rat(100, 1))

\* storage.read_prediction_result_accuracy: one row per user of the grouped
\* predictions (the query has no ORDER BY: a set).
read_prediction_result_accuracy(preds, ms, us) ==
    LET joined == ResultViewRows(preds, ms)
    IN {[user_id |-> u,
         username |-> JoinedUsername(us, u),
         predictions |-> Cardinality({p \in joined : p.user_id = u}),
         result_accuracy_percent |->
             result_accuracy_sql(
                 SumOver({p \in joined : p.user_id = u},
                         [p \in joined |-> ResultCase(p, ms)]),
                 Cardinality({p \in joined : p.user_id = u}))]
        : u \in {p.user_id : p \in joined}}

\* 100 - 100 * ABS(pred - real) / NULLIF(GREATEST(pred, real), 1) on
\* integer columns: an integer (the division truncates), NULL when the
\* greater of the two is 1, the error division_by_zero when both are 0.
GoalSideSql(pred, real) ==
    LET g == GREATEST(pred, real)
    IN IF g = 1 THEN [null |-> TRUE]
       ELSE IF g = 0 THEN [error |-> "division_by_zero"]
       ELSE [value |-> 100 - ((100 * ABS(pred - real)) \div g)]

\* AVG(expr) over a group: the mean of the non-NULL values as numeric, which
\* the driver hands to Python as a Decimal; NULL (None) when all are NULL.
AvgNumeric(group, side) ==
    LET vals == {p \in group : "value" \in DOMAIN side[p]}
    IN IF vals = {} THEN None
       ELSE [type |-> "Decimal",
             v |-> RatDiv(RatSum(vals, [p \in vals |-> Rat(side[p].value, 1)]),
                          Rat(Cardinality(vals), 1))]

\* Python: (x or 0.0) for x None or a Decimal
OrZeroFloat(x) ==
    IF x = None \/ x.v = Rat(0, 1) THEN [type |-> "float", v |-> Rat(0, 1)] ELSE x

\* storage.read_prediction_goal_accuracy: [exc, rows]. The statement fails
\* as a whole when one joined row divides by zero; the loop over the rows
\* raises TypeError when it adds a Decimal and the float 0.0.
read_prediction_goal_accuracy(preds, ms, us) ==
    LET joined == GoalViewRows(preds, ms)
        side1 == [p \in joined |-> GoalSideSql(p.pred_score1, ms[p.match_id].score1)]
        side2 == [p \in joined |-> GoalSideSql(p.pred_score2, ms[p.match_id].score2)]
        group(u) == {p \in joined : p.user_id = u}
        a1(u) == OrZeroFloat(AvgNumeric(group(u), side1))
        a2(u) == OrZeroFloat(AvgNumeric(group(u), side2))
        groups == {p.user_id : p \in joined}
    IN IF \E p \in joined : "error" \in DOMAIN side1[p] \/ "error" \in DOMAIN side2[p]
       THEN [exc |-> "division_by_zero", rows |-> {}]
       ELSE IF \E u \in groups : a1(u).type # a2(u).type
       THEN [exc |-> "TypeError", rows |-> {}]
       ELSE [exc |-> "",
             rows |-> {[user_id |-> u,
                        username |-> JoinedUsername(us, u),
                        predictions |-> Cardinality(group(u)),
                        goal_accuracy_percent |->
                            RatDiv(RatAdd(a1(u).v, a2(u).v), Rat(2, 1))]
                       : u \in groups}]

\* storage._single_score_accuracy
_single_score_accuracy(real, predicted) ==
    IF real = predicted THEN Rat(1, 1)
    ELSE LET denominator == GREATEST(real, predicted)
             diff == ABS(real - predicted)
         IN IF denominator = 0 THEN Rat(1, 1)
            ELSE IF diff >= denominator THEN Rat(0, 1)
            ELSE RatSub(Rat(1, 1), Rat(diff, denominator))

\* storage._goal_accuracy_percent
_goal_accuracy_percent(real1, real2, pred1, pred2) ==
    RatMul(RatDiv(RatAdd(_single_score_accuracy(real1, pred1),
                         _single_score_accuracy(real2, pred2)),
                  Rat(2, 1)),
           Rat(100, 1))

\* Results entered and scores predicted in the stores the views are read on.
StatResults == {<<3, 1>>, <<0, 2>>, <<2, 2>>}
StatPredictions == {<<2, 1>>, <<0, 0>>, <<3, 1>>}

\* A store as the registry and the ledger leave it: every match scheduled,
\* finished with a result, or finished without one (an import with status
\* finished and no scores); every user has predicted some of the matches.
InitStats ==
    /\ \E rs \in [MatchIds -> StatResults \cup {<<"scheduled">>, <<"finished">>}] :
          matches = [id \in MatchIds |->
                        [team1 |-> "A", team2 |-> "B",
                         score1 |-> IF Len(rs[id]) = 2 THEN rs[id][1] ELSE NULL,
                         score2 |-> IF Len(rs[id]) = 2 THEN rs[id][2] ELSE NULL,
                         status |-> IF Len(rs[id]) = 2 THEN "finished" ELSE rs[id][1]]]
    /\ \E ps \in [UserIds \X MatchIds -> StatPredictions \cup {<<>>}] :
          predictions = {[user_id |-> k[1], match_id |-> k[2],
                          pred_score1 |-> ps[k][1], pred_score2 |-> ps[k][2]]
                         : k \in {x \in UserIds \X MatchIds : ps[x] # <<>>}}
    /\ users = [u \in {p.user_id : p \in predictions} |-> NameOf[u]]
    /\ match_seq = MaxMatch
    /\ leaderboard = {}
    /\ ret = Returned("init", <<>>, "", None)
    /\ calc = CalcIdle
    /\ tx = TxIdle
    /\ nops = 0

\* bot.show_result_accuracy, app.webapp_result_accuracy:
\* storage.read_prediction_result_accuracy()
DoReadResultAccuracy ==
    /\ Call
    /\ ret' = Returned("read_prediction_result_accuracy", <<>>, "",
                       read_prediction_result_accuracy(predictions, matches, users))
    /\ UNCHANGED <<matches, users, predictions, match_seq, leaderboard, calc, tx>>

\* bot.show_goal_accuracy, app.webapp_goal_accuracy:
\* storage.read_prediction_goal_accuracy()
DoReadGoalAccuracy ==
    /\ Call
    /\ LET r == read_prediction_goal_accuracy(predictions, matches, users)
       IN ret' = Returned("read_prediction_goal_accuracy", <<>>, r.exc, r.rows)
    /\ UNCHANGED <<matches, users, predictions, match_seq, leaderboard, calc, tx>>

\* The two views read, in any order, on a store that stays as it is.
NextStats ==
    \/ DoReadResultAccuracy
    \/ DoReadGoalAccuracy

SpecStats == InitStats /\ [][NextStats]_vars

\* ------------------------------------------- the authenticated HTTP API
\* app.MAX_AGE = 24 * 60 * 60
MAX_AGE == 24 * 60 * 60

\* app.BOT_TOKEN
BOT_TOKEN == "token"

\* hmac.new(key, msg, hashlib.sha256): a digest stands for the key and the
\* message it was computed from (no collisions, no forgery without the key).
Hmac(key, msg) == [key |-> key, msg |-> msg]

\* No hash pair in initData.
NoHash == [key |-> Hmac("", ""), msg |-> [auth_date |-> 0]]

\* time.time() when the requests are handled
AuthNow == 2 * MAX_AGE

\* The user pair of initData: the JSON of a Telegram user, or text that is
\* not JSON.
UserJson(id) == [json |-> TRUE, id |-> id]
BadJson == [json |-> FALSE]

\* initData as Telegram signs it for the bot: the pairs and their hash.
Signed(pairs, token) == [pairs |-> pairs, hash |-> Hmac(Hmac("WebAppData", token), pairs)]

\* The initData values sent: signed for user 1 and for user 2, signed at the
\* age limit, older than it and dated ahead of it, signed without a user and
\* with a user that is not JSON, signed with another token, the pairs of
\* user 2 under the hash of user 1, no hash, and nothing.
InitDatas ==
    {Signed([auth_date |-> AuthNow, user |-> UserJson(u)], BOT_TOKEN) : u \in UserIds}
    \cup {Signed([auth_date |-> AuthNow - d, user |-> UserJson(1)], BOT_TOKEN)
             : d \in {MAX_AGE, MAX_AGE + 1, 0 - MAX_AGE - 1}}
    \cup {Signed([auth_date |-> AuthNow], BOT_TOKEN),
          Signed([auth_date |-> AuthNow, user |-> BadJson], BOT_TOKEN),
          Signed([auth_date |-> AuthNow, user |-> UserJson(1)], "guess"),
          [pairs |-> [auth_date |-> AuthNow, user |-> UserJson(2)],
           hash |-> Signed([auth_date |-> AuthNow, user |-> UserJson(1)], BOT_TOKEN).hash],
          [pairs |-> [auth_date |-> AuthNow, user |-> UserJson(1)], hash |-> NoHash],
          [empty |-> TRUE]}

\* utils.telegram_webapp.verify_init_data
verify_init_data(init_data, bot_token) ==
    IF "empty" \in DOMAIN init_data \/ bot_token = "" THEN FALSE
    ELSE IF init_data.hash = NoHash THEN FALSE
    ELSE Hmac(Hmac("WebAppData", bot_token), init_data.pairs) = init_data.hash

\* Variant: every initData taken as signed, fresh and complete.
_verify_and_extract_user_trusting(init_data, now) ==
    [user |-> IF "pairs" \in DOMAIN init_data /\ "user" \in DOMAIN init_data.pairs
                 /\ init_data.pairs.user.json
              THEN init_data.pairs.user ELSE UserJson(1),
     error |-> ""]

\* app._verify_and_extract_user: [user, error], error "" for None
_verify_and_extract_user(init_data, now) ==
    IF ~verify_init_data(init_data, BOT_TOKEN)
    THEN [user |-> None, error |-> "invalid_signature"]
    ELSE IF ABS(now - init_data.pairs.auth_date) > MAX_AGE
    THEN [user |-> None, error |-> "expired"]
    ELSE IF "user" \notin DOMAIN init_data.pairs
    THEN [user |-> None, error |-> "missing_user"]
    ELSE IF ~init_data.pairs.user.json
    THEN [user |-> None, error |-> "bad_user_json"]
    ELSE [user |-> init_data.pairs.user, error |-> ""]

\* A response with ok = true: the body and the storage functions called.
ResponseOk(body, calls) == [status |-> 200, error |-> "", calls |-> calls, body |-> body]

\* The handler raised: Flask answers 500.
ResponseFailed(calls) == [status |-> 500, error |-> "", calls |-> calls]

\* return jsonify({"ok": False, "error": error}), 401
Unauthorized(endpoint, args, error) ==
    /\ users' = users
    /\ predictions' = predictions
    /\ leaderboard' = leaderboard
    /\ ret' = Returned(endpoint, args, "", Response(401, error, <<>>))

\* sorted(rows, key=lambda row: row[key], reverse=True) of rows the query
\* returned in no stated order: rows of equal key in any order.
SortedReverse(rows, key) ==
    {s \in Orderings(rows) :
        \A i, j \in 1..Len(s) : i < j => ~RatLess(s[i][key], s[j][key])}

\* storage.get_user_prediction_stats, rows being what its call of
\* leaderboard_rows returned.
get_user_prediction_stats(preds, ms, us, user_id, rows) ==
    LET res == {row \in read_prediction_result_accuracy(preds, ms, us) : row.user_id = user_id}
        goal == read_prediction_goal_accuracy(preds, ms, us)
        goal_acc == {row \in goal.rows : row.user_id = user_id}
        at == {i \in 1..Len(rows) : rows[i][1] = user_id}
    IN IF goal.exc # "" THEN [exc |-> goal.exc, val |-> None]
       ELSE [exc |-> "",
             val |-> [predictions |-> Cardinality({p \in preds : p.user_id = user_id}),
                      result_accuracy_percent |->
                          IF res = {} THEN Rat(0, 1)
                          ELSE (CHOOSE row \in res : TRUE).result_accuracy_percent,
                      goal_accuracy_percent |->
                          IF goal_acc = {} THEN Rat(0, 1)
                          ELSE (CHOOSE row \in goal_acc : TRUE).goal_accuracy_percent,
                      place |-> IF at = {} THEN 0 ELSE CHOOSE i \in at : TRUE,
                      points |-> IF at = {} THEN 0 ELSE rows[CHOOSE i \in at : TRUE][3]]]

\* app.webapp_profile
WebappProfile(init_data) ==
    LET v == _verify_and_extract_user(init_data, AuthNow)
        endpoint == "/api/webapp/profile"
    IN /\ Call
       /\ IF v.error # "" THEN Unauthorized(endpoint, <<init_data>>, v.error)
          ELSE /\ leaderboard' = refresh_leaderboard(predictions, matches)
               /\ \E rows \in leaderboard_rows(leaderboard', users) :
                     LET stats == get_user_prediction_stats(predictions, matches, users,
                                                            v.user.id, rows)
                     IN ret' = Returned(endpoint, <<init_data>>, stats.exc,
                                   IF stats.exc # ""
                                   THEN ResponseFailed(<<"get_user_prediction_stats">>)
                                   ELSE ResponseOk([user |-> v.user.id, stats |-> stats.val],
                                                   <<"get_user_prediction_stats">>))
               /\ UNCHANGED <<users, predictions>>
       /\ UNCHANGED <<matches, match_seq, calc, tx>>

\* app.webapp_matches at time now
WebappMatches(init_data, now) ==
    LET v == _verify_and_extract_user(init_data, AuthNow)
        endpoint == "/api/webapp/matches"
    IN /\ Call
       /\ IF v.error # "" THEN Unauthorized(endpoint, <<init_data>>, v.error)
          ELSE /\ ret' = Returned(endpoint, <<init_data>>, "",
                            ResponseOk([prediction_allowed |-> _is_prediction_window_open(now),
                                        matches |-> get_pending_matches_for_user(
                                                        matches, predictions, v.user.id)],
                                       <<"get_pending_matches_for_user">>))
               /\ UNCHANGED <<users, predictions, leaderboard>>
       /\ UNCHANGED <<matches, match_seq, calc, tx>>

\* app.webapp_prediction at time now, the signature check included
WebappPrediction(init_data, match_id, score1, score2, now) ==
    LET v == _verify_and_extract_user(init_data, AuthNow)
        endpoint == "/api/webapp/prediction"
        args == <<init_data, match_id, score1, score2, now>>
    IN /\ Call
       /\ IF v.error # "" THEN Unauthorized(endpoint, args, v.error)
          ELSE LET r == webapp_prediction(predictions, users, matches, v.user.id,
                                          match_id, score1, score2, now)
               IN /\ users' = r.users
                  /\ predictions' = r.predictions
                  /\ ret' = Returned(endpoint, args, r.exc, r.val)
                  /\ UNCHANGED leaderboard
       /\ UNCHANGED <<matches, match_seq, calc, tx>>

\* app.webapp_leaderboard
WebappLeaderboard(init_data) ==
    LET v == _verify_and_extract_user(init_data, AuthNow)
        endpoint == "/api/webapp/leaderboard"
    IN /\ Call
       /\ IF v.error # "" THEN Unauthorized(endpoint, <<init_data>>, v.error)
          ELSE /\ leaderboard' = refresh_leaderboard(predictions, matches)
               /\ \E lb \in leaderboard_rows(leaderboard', users) :
                     LET rows == [i \in 1..Len(lb) |->
                                     [user_id |-> lb[i][1], username |-> lb[i][2],
                                      points |-> lb[i][3]]]
                     IN ret' = Returned(endpoint, <<init_data>>, "",
                                   ResponseOk(_top_with_user(rows, v.user.id, TopLimit),
                                              <<"leaderboard_rows">>))
               /\ UNCHANGED <<users, predictions>>
       /\ UNCHANGED <<matches, match_seq, calc, tx>>

\* row.get("username") or ""
UsernameOrEmpty(row) ==
    [row EXCEPT !.username = IF row.username = NoName THEN "" ELSE row.username]

\* app.webapp_result_accuracy
WebappResultAccuracy(init_data) ==
    LET v == _verify_and_extract_user(init_data, AuthNow)
        endpoint == "/api/webapp/result-accuracy"
        read == read_prediction_result_accuracy(predictions, matches, users)
    IN /\ Call
       /\ IF v.error # "" THEN Unauthorized(endpoint, <<init_data>>, v.error)
          ELSE /\ \E sorted \in SortedReverse(read, "result_accuracy_percent") :
                     LET rows == [i \in 1..Len(sorted) |-> UsernameOrEmpty(sorted[i])]
                     IN ret' = Returned(endpoint, <<init_data>>, "",
                                   ResponseOk(_top_with_user(rows, v.user.id, TopLimit),
                                              <<"read_prediction_result_accuracy">>))
               /\ UNCHANGED <<users, predictions, leaderboard>>
       /\ UNCHANGED <<matches, match_seq, calc, tx>>

\* app.webapp_goal_accuracy
WebappGoalAccuracy(init_data) ==
    LET v == _verify_and_extract_user(init_data, AuthNow)
        endpoint == "/api/webapp/goal-accuracy"
        read == read_prediction_goal_accuracy(predictions, matches, users)
    IN /\ Call
       /\ IF v.error # "" THEN Unauthorized(endpoint, <<init_data>>, v.error)
          ELSE /\ IF read.exc # ""
                  THEN ret' = Returned(endpoint, <<init_data>>, read.exc,
                                  ResponseFailed(<<"read_prediction_goal_accuracy">>))
                  ELSE \E sorted \in SortedReverse(read.rows, "goal_accuracy_percent") :
                          LET rows == [i \in 1..Len(sorted) |-> UsernameOrEmpty(sorted[i])]
                          IN ret' = Returned(endpoint, <<init_data>>, "",
                                        ResponseOk(_top_with_user(rows, v.user.id, TopLimit),
                                                   <<"read_prediction_goal_accuracy">>))
               /\ UNCHANGED <<users, predictions, leaderboard>>
       /\ UNCHANGED <<matches, match_seq, calc, tx>>

\* The stores the requests are made on: those of the accuracy views in
\* which match 1 alone has been predicted and may be finished.
InitApi ==
    /\ InitStats
    /\ \A id \in MatchIds \ {1} : matches[id].status = "scheduled"
    /\ \A p \in predictions : p.match_id = 1

\* Requests to the six authenticated endpoints, MaxSubmits requests in all.
NextApi ==
    \/ /\ nops < MaxSubmits
       /\ \E init_data \in InitDatas : WebappProfile(init_data)
    \/ /\ nops < MaxSubmits
       /\ \E init_data \in InitDatas, now \in HandlerInstants : WebappMatches(init_data, now)
    \/ /\ nops < MaxSubmits
       /\ \E init_data \in InitDatas, m \in MatchIds, now \in HandlerInstants :
             WebappPrediction(init_data, m, 0, 0, now)
    \/ /\ nops < MaxSubmits
       /\ \E init_data \in InitDatas : WebappLeaderboard(init_data)
    \/ /\ nops < MaxSubmits
       /\ \E init_data \in InitDatas : WebappResultAccuracy(init_data)
    \/ /\ nops < MaxSubmits
       /\ \E init_data \in InitDatas : WebappGoalAccuracy(init_data)

SpecApi == InitApi /\ [][NextApi]_vars

\* ------------------------------------------------ settlement on its own
\* storage.settle_match_points(match_id, score1, score2) called with any
\* scores, whatever the match stores.
DoSettleMatchPoints(match_id, score1, score2) ==
    LET r == settle_match_points_session(matches, predictions, users,
                                         match_id, score1, score2)
    IN /\ Call
       /\ matches' = r.matches
       /\ users' = r.users
       /\ predictions' = r.predictions
       /\ \E awarded \in Orderings(r.awarded) :
             ret' = Returned("settle_match_points", <<match_id, score1, score2>>,
                             "", awarded)
       /\ UNCHANGED <<match_seq, leaderboard, calc, tx>>

\* Settlements with any scores and reads of the leaderboard, on the stores
\* the API is read on.
NextSettle ==
    \/ \E m \in MatchIds, s1, s2 \in CalcScores : DoSettleMatchPoints(m, s1, s2)
    \/ DoLeaderboardRows

SpecSettle == InitApi /\ [][NextSettle]_vars

\* ------------------------------------------------- the bot's conversations
\* A text message is named by its text; the buttons by the constant of
\* bot.py that holds theirs.
YES_WORDS == {"ok", "yes", "y", "+"}
NO_WORDS == {"no", "n", "-"}
CANCEL_WORDS == {"cancel", "back", "stop"}

\* str.lower() on the texts sent
Lower(text) ==
    IF text = "Cancel" THEN "cancel" ELSE IF text = "OK" THEN "ok" ELSE text

\* The characters of a text, for parse_score.
Chars(text) ==
    IF text = "1:0" THEN <<"1", ":", "0">>
    ELSE IF text = "10" THEN <<"1", "0">>
    ELSE <<"x">>

\* Variant: every user taken for an admin.
is_admin_everyone(user_id) == TRUE

\* bot.is_admin
is_admin(user_id) == user_id # 0 /\ user_id \in AdminIds

\* bot.is_yes, bot.is_no
is_yes(text_lower) == text_lower \in YES_WORDS
is_no(text_lower) == text_lower \in NO_WORDS

\* context.user_data of one user, a key that is absent holding NULL, "" or
\* FALSE; reply and prompted are the replies the last update of the user was
\* answered with and the match the last of them prompts for.
UserDataClear ==
    [awaiting_prediction_match |-> NULL, admin_mode |-> "",
     admin_result_match |-> NULL, add_match_state |-> "",
     candidate_team1 |-> "", candidate_team2 |-> "", admin_menu_open |-> FALSE]

\* What a handler leaves: the tables, the user's user_data, the replies
\* sent, the match prompted for, the storage functions called and the
\* exception that ended it, if any.
Handled(us, ms, preds, seq, ud, replies, prompted, calls, exc) ==
    [users |-> us, matches |-> ms, predictions |-> preds, match_seq |-> seq,
     ud |-> ud, replies |-> replies, prompted |-> prompted, calls |-> calls,
     exc |-> exc]

\* bot.start_prediction_flow at time now, after the replies and calls of
\* the handler that runs it.
bot_start_prediction_flow(us, ms, preds, seq, ud, user_id, now, replies, calls) ==
    IF ~is_prediction_window_open(now)
    THEN Handled(us, ms, preds, seq, ud, Append(replies, "window_closed"), NULL, calls, "")
    ELSE LET match == get_next_match_for_prediction(ms, preds, user_id)
             calls2 == Append(calls, "get_next_match_for_prediction")
         IN IF match = None
            THEN Handled(us, ms, preds, seq,
                         [ud EXCEPT !.awaiting_prediction_match = NULL],
                         Append(replies, "all_predicted"), NULL, calls2, "")
            ELSE Handled(us, ms, preds, seq,
                         [ud EXCEPT !.awaiting_prediction_match = match.id],
                         Append(replies, "prediction_prompt"), match.id, calls2, "")

\* bot.handle_prediction_input
bot_handle_prediction_input(us, ms, preds, seq, ud, user_id, text, now) ==
    LET match_id == ud.awaiting_prediction_match
        popped == [ud EXCEPT !.awaiting_prediction_match = NULL]
        parsed == parse_score(Chars(text))
        r == append_prediction(preds, us, ms, match_id, user_id, NameOf[user_id],
                               parsed.score1, parsed.score2)
    IN IF ~is_prediction_window_open(now)
       THEN Handled(us, ms, preds, seq, popped, <<"window_closed">>, NULL, <<>>, "")
       ELSE IF text = "PREDICTION_CANCEL_BTN" \/ Lower(text) \in CANCEL_WORDS
       THEN Handled(us, ms, preds, seq, popped, <<"prediction_cancelled">>, NULL, <<>>, "")
       ELSE IF parsed = None
       THEN Handled(us, ms, preds, seq, ud, <<"bad_format">>, NULL, <<>>, "")
       ELSE IF get_user_prediction(preds, match_id, user_id)
       THEN bot_start_prediction_flow(us, ms, preds, seq, popped, user_id, now,
                                      <<"already_predicted">>, <<"get_user_prediction">>)
       ELSE IF r.exc # ""
       THEN Handled(r.users, ms, r.predictions, seq, ud, <<>>, NULL,
                    <<"get_user_prediction", "append_prediction">>, r.exc)
       ELSE bot_start_prediction_flow(r.users, ms, r.predictions, seq, popped, user_id, now,
                                      <<"saved">>,
                                      <<"get_user_prediction", "append_prediction">>)

\* Variant: leaving the conversation keeps the names typed so far.
exit_admin_add_mode_keep_names(ud) ==
    [ud EXCEPT !.admin_mode = "", !.add_match_state = ""]

\* bot.exit_admin_add_mode
exit_admin_add_mode(ud) ==
    [ud EXCEPT !.admin_mode = "", !.add_match_state = "",
               !.candidate_team1 = "", !.candidate_team2 = ""]

\* bot.restart_add_match_flow
restart_add_match_flow(ud) ==
    [ud EXCEPT !.admin_mode = "adding_match", !.add_match_state = "await_team1",
               !.candidate_team1 = "", !.candidate_team2 = ""]

\* bot.handle_admin_add_match_input
handle_admin_add_match_input(us, ms, preds, seq, ud, text) ==
    LET text_lower == Lower(text)
        state == IF ud.add_match_state = "" THEN "await_team1" ELSE ud.add_match_state
        confirm == text = "ADD_MATCH_CONFIRM_BTN" \/ is_yes(text_lower)
        reenter == text = "ADD_MATCH_REENTER_BTN" \/ is_no(text_lower)
        said(ud2, reply) == Handled(us, ms, preds, seq, ud2, <<reply>>, NULL, <<>>, "")
        r == add_match(ms, seq, ud.candidate_team1, ud.candidate_team2)
    IN IF text = "ADD_MATCH_CANCEL_BTN" \/ text_lower \in CANCEL_WORDS
       THEN said(exit_admin_add_mode(ud), "add_match_cancelled")
       ELSE IF state = "await_team1"
       THEN IF text = "" THEN said(ud, "team1_empty")
            ELSE said([ud EXCEPT !.candidate_team1 = text,
                                 !.add_match_state = "confirm_team1"], "confirm_team1")
       ELSE IF state = "confirm_team1"
       THEN IF confirm THEN said([ud EXCEPT !.add_match_state = "await_team2"], "ask_team2")
            ELSE IF reenter
            THEN said([ud EXCEPT !.add_match_state = "await_team1",
                                 !.candidate_team1 = ""], "ask_team1_again")
            ELSE said(ud, "press_a_button")
       ELSE IF state = "await_team2"
       THEN IF text = "" THEN said(ud, "team2_empty")
            ELSE said([ud EXCEPT !.candidate_team2 = text,
                                 !.add_match_state = "confirm_team2"], "confirm_team2")
       ELSE IF state = "confirm_team2"
       THEN IF confirm THEN said([ud EXCEPT !.add_match_state = "confirm_final"], "confirm_final")
            ELSE IF reenter
            THEN said([ud EXCEPT !.add_match_state = "await_team2",
                                 !.candidate_team2 = ""], "ask_team2_again")
            ELSE said(ud, "press_a_button")
       ELSE IF state = "confirm_final"
       THEN IF confirm
            THEN IF ud.candidate_team1 = "" \/ ud.candidate_team2 = ""
                 THEN said(restart_add_match_flow(ud), "data_missing")
                 ELSE IF r.exc # ""
                 THEN Handled(us, r.matches, preds, seq + 1, ud, <<>>, NULL,
                              <<"add_match">>, r.exc)
                 ELSE Handled(us, r.matches, preds, seq + 1, exit_admin_add_mode(ud),
                              <<"match_created">>, NULL, <<"add_match">>, "")
            ELSE IF reenter THEN said(restart_add_match_flow(ud), "start_over")
            ELSE said(ud, "press_a_button")
       ELSE said(restart_add_match_flow(ud), "state_error")

\* Variant: the scheduled matches only.
get_next_pending_match_for_result_scheduled(ms) ==
    LET rows == OrderById({id \in DOMAIN ms : ms[id].status = "scheduled"})
    IN IF rows = <<>> THEN None ELSE _match_to_dict(rows[1], ms[rows[1]])

\* storage.get_next_pending_match_for_result: the lowest id whose status is
\* not finished, as the match dict, or None.
get_next_pending_match_for_result(ms) ==
    LET rows == OrderById({id \in DOMAIN ms : ms[id].status # "finished"})
    IN IF rows = <<>> THEN None ELSE _match_to_dict(rows[1], ms[rows[1]])

\* bot.prompt_next_result, after the replies and calls of the handler that
\* runs it; admin_result_match keeps the id of the match dict.
prompt_next_result(us, ms, preds, seq, ud, replies, calls) ==
    LET match == get_next_pending_match_for_result(ms)
        calls2 == Append(calls, "get_next_pending_match_for_result")
    IN IF match = None
       THEN Handled(us, ms, preds, seq,
                    [ud EXCEPT !.admin_mode = "", !.admin_result_match = NULL],
                    Append(replies, "no_matches_without_result"), NULL, calls2, "")
       ELSE Handled(us, ms, preds, seq,
                    [ud EXCEPT !.admin_mode = "entering_result",
                               !.admin_result_match = match.id],
                    Append(replies, "result_prompt"), match.id, calls2, "")

\* bot.handle_admin_result_input, the whole handler
bot_handle_admin_result_input(us, ms, preds, seq, ud, text) ==
    LET match_id == ud.admin_result_match
        parsed == parse_score(Chars(text))
        said(ud2, reply, calls) == Handled(us, ms, preds, seq, ud2, <<reply>>, NULL, calls, "")
        updated_match == update_match_result(ms, match_id, parsed.score1, parsed.score2)
    IN IF match_id = NULL
       THEN said([ud EXCEPT !.admin_mode = ""], "match_not_found", <<>>)
       ELSE IF text = "BACK_BTN" \/ Lower(text) \in CANCEL_WORDS
       THEN said([ud EXCEPT !.admin_mode = "", !.admin_result_match = NULL],
                 "result_mode_left", <<>>)
       ELSE IF parsed = None THEN said(ud, "bad_format", <<>>)
       ELSE IF updated_match.val = None
       THEN said(ud, "update_failed", <<"update_match_result">>)
       ELSE prompt_next_result(us, updated_match.matches, preds, seq, ud,
                               <<"result_saved">>,
                               <<"update_match_result", "settle_match_points">>)

\* bot.text_router at time now. The buttons of the statistics screens, which
\* only read, are not among the texts sent.
text_router(us, ms, preds, seq, ud, user_id, text, now) ==
    LET us2 == ensure_user_record(us, user_id, NameOf[user_id])
        said(ud2, reply) == Handled(us2, ms, preds, seq, ud2, <<reply>>, NULL, <<>>, "")
    IN IF ud.awaiting_prediction_match # NULL
       THEN bot_handle_prediction_input(us2, ms, preds, seq, ud, user_id, text, now)
       ELSE IF ud.admin_mode = "adding_match"
       THEN handle_admin_add_match_input(us2, ms, preds, seq, ud, text)
       ELSE IF ud.admin_mode = "entering_result"
       THEN bot_handle_admin_result_input(us2, ms, preds, seq, ud, text)
       ELSE IF text = "MAKE_PREDICTION_BTN"
       THEN bot_start_prediction_flow(us2, ms, preds, seq, ud, user_id, now, <<>>, <<>>)
       ELSE IF text = "ADMIN_MENU_BTN" /\ is_admin(user_id)
       THEN said([ud EXCEPT !.admin_menu_open = TRUE], "admin_menu")
       ELSE IF text = "BACK_BTN" /\ ud.admin_menu_open
       THEN said([ud EXCEPT !.admin_menu_open = FALSE, !.admin_mode = "",
                            !.admin_result_match = NULL, !.add_match_state = "",
                            !.candidate_team1 = "", !.candidate_team2 = ""],
                 "main_menu")
       ELSE IF text = "ADMIN_ADD_MATCH_BTN" /\ is_admin(user_id)
       THEN said([ud EXCEPT !.admin_mode = "adding_match",
                            !.add_match_state = "await_team1",
                            !.candidate_team1 = "", !.candidate_team2 = ""],
                 "ask_team1")
       ELSE IF text = "ADMIN_ENTER_RESULT_BTN" /\ is_admin(user_id)
       THEN prompt_next_result(us2, ms, preds, seq, ud, <<>>, <<>>)
       ELSE said(ud, "unrecognised")

\* bot.start (the /start and /help commands)
start(us, ms, preds, seq, ud, user_id) ==
    Handled(ensure_user_record(us, user_id, NameOf[user_id]), ms, preds, seq,
            UserDataClear, <<"greeting">>, NULL, <<>>, "")

\* One update of the bot: a message of user_id with the text, at time now.
\* calc[user_id] is the user's user_data after it, ret what the handler did.
BotUpdate(user_id, text, now) ==
    \E h \in {IF text = "/start"
             THEN start(users, matches, predictions, match_seq, calc[user_id], user_id)
             ELSE text_router(users, matches, predictions, match_seq, calc[user_id],
                              user_id, text, now)} :
       /\ "add_match" \in {h.calls[i] : i \in 1..Len(h.calls)} => match_seq < MaxMatch
       /\ users' = h.users
       /\ matches' = h.matches
       /\ predictions' = h.predictions
       /\ match_seq' = h.match_seq
       /\ calc' = [calc EXCEPT ![user_id] = h.ud]
       /\ ret' = Returned("text_router", <<user_id, text, now>>, h.exc,
                          [replies |-> h.replies, prompted |-> h.prompted,
                           calls |-> h.calls])
       /\ UNCHANGED <<leaderboard, tx>>

\* The bot with every user at the keyboard, the mini-app beside it.
BotTexts ==
    {"/start", "MAKE_PREDICTION_BTN", "ADMIN_MENU_BTN", "BACK_BTN",
     "ADMIN_ADD_MATCH_BTN", "ADMIN_ENTER_RESULT_BTN", "ADD_MATCH_CONFIRM_BTN",
     "PREDICTION_CANCEL_BTN", "1:0", "10", "Cancel"}

InitBot ==
    /\ \E S \in SUBSET MatchIds :
          matches = [id \in S |->
                        [team1 |-> "A", team2 |-> "B", score1 |-> NULL,
                         score2 |-> NULL, status |-> "scheduled"]]
    /\ match_seq = MaxMatch - 1
    /\ users = <<>>
    /\ predictions = {}
    /\ leaderboard = {}
    /\ ret = Returned("init", <<>>, "", None)
    /\ calc = [u \in UserIds |-> UserDataClear]
    /\ tx = TxIdle
    /\ nops = 0

DoTextRouter(user_id, text, now) == Call /\ BotUpdate(user_id, text, now)

NextBot ==
    \/ \E u \in UserIds, text \in BotTexts, now \in HandlerInstants :
          DoTextRouter(u, text, now)
    \/ \E u \in UserIds, m \in MatchIds, sc \in PayloadScores, now \in HandlerInstants :
          DoWebappPrediction(u, m, sc[1], sc[2], now)

SpecBot == InitBot /\ [][NextBot]_vars

\* The add-match conversation of an admin, as long as it takes; the id
\* sequence has one id left.
AddMatchTexts ==
    {"/start", "ADMIN_ADD_MATCH_BTN", "ADD_MATCH_CONFIRM_BTN",
     "ADD_MATCH_REENTER_BTN", "ADD_MATCH_CANCEL_BTN", "OK", "no", "Cancel",
     "A", ""}

DoAddMatchMessage(admin, text) ==
    /\ BotUpdate(admin, text, OpenInstant)
    /\ UNCHANGED nops

NextAddMatch == \E admin \in AdminIds, text \in AddMatchTexts : DoAddMatchMessage(admin, text)

SpecAddMatch == InitBot /\ [][NextAddMatch]_vars

\* The two flows of the bot, every user predicting and the admin entering
\* results, before the cutoff and with no match added; the matches stored
\* are scheduled or live.
InitFlow ==
    /\ \E S \in SUBSET MatchIds :
          \E st \in [S -> {"scheduled", "live"}] :
             matches = [id \in S |->
                           [team1 |-> "A", team2 |-> "B", score1 |-> NULL,
                            score2 |-> NULL, status |-> st[id]]]
    /\ match_seq = MaxMatch
    /\ users = <<>>
    /\ predictions = {}
    /\ leaderboard = {}
    /\ ret = Returned("init", <<>>, "", None)
    /\ calc = [u \in UserIds |-> UserDataClear]
    /\ tx = TxIdle
    /\ nops = 0

FlowMessage(user_id, text) ==
    /\ BotUpdate(user_id, text, OpenInstant)
    /\ UNCHANGED nops

\* No conversation of the user is going on.
AtMenu(user_id) ==
    /\ calc[user_id].awaiting_prediction_match = NULL
    /\ calc[user_id].admin_mode = ""

PressMakePrediction(user_id) ==
    AtMenu(user_id) /\ FlowMessage(user_id, "MAKE_PREDICTION_BTN")

\* The user answers the prompt with a score.
AnswerPrediction(user_id) ==
    /\ calc[user_id].awaiting_prediction_match # NULL
    /\ FlowMessage(user_id, "1:0")

\* The user answers the prompt with something else.
AnswerPredictionBadly(user_id) ==
    /\ calc[user_id].awaiting_prediction_match # NULL
    /\ FlowMessage(user_id, "10")

PressEnterResult(admin) ==
    AtMenu(admin) /\ FlowMessage(admin, "ADMIN_ENTER_RESULT_BTN")

\* The admin answers the prompt with a score.
EnterResult(admin) ==
    /\ calc[admin].awaiting_prediction_match = NULL
    /\ calc[admin].admin_mode = "entering_result"
    /\ FlowMessage(admin, "1:0")

\* The admin answers the prompt with something else.
EnterResultBadly(admin) ==
    /\ calc[admin].awaiting_prediction_match = NULL
    /\ calc[admin].admin_mode = "entering_result"
    /\ FlowMessage(admin, "10")

NextFlow ==
    \/ \E u \in UserIds : PressMakePrediction(u)
    \/ \E u \in UserIds : AnswerPrediction(u)
    \/ \E u \in UserIds : AnswerPredictionBadly(u)
    \/ \E a \in AdminIds : PressEnterResult(a)
    \/ \E a \in AdminIds : EnterResult(a)
    \/ \E a \in AdminIds : EnterResultBadly(a)

\* A prompted user keeps answering with scores: the application handles the
\* updates one after another and each handler returns.
SpecPredictionFlow ==
    InitFlow /\ [][NextFlow]_vars /\ \A u \in UserIds : WF_vars(AnswerPrediction(u))

\* A prompted admin keeps entering scores.
SpecResultFlow ==
    InitFlow /\ [][NextFlow]_vars /\ \A a \in AdminIds : WF_vars(EnterResult(a))

\* ------------------------------- leaderboard_rows beside concurrent writers
\* storage.leaderboard_rows is two transactions: refresh_leaderboard(), then
\* the SELECT from the view joined with users. Other processes commit
\* predictions and results, and refresh the view themselves, before, between
\* and after the two. tx[ReaderProc] is where the reader stands; calc.seen
\* collects the committed stores that existed since its call refreshed.
ReaderProc == 1

Store == [users |-> users, matches |-> matches, predictions |-> predictions]

StoreAfter(us, ms, preds) == [users |-> us, matches |-> ms, predictions |-> preds]

\* The stores the running call of the reader has lived through, the one
\* now committed added.
SeenWith(st) ==
    IF tx[ReaderProc].pc = "select" THEN [seen |-> calc.seen \cup {st}] ELSE calc

InitBoard ==
    /\ matches = [id \in MatchIds |->
                     [team1 |-> "A", team2 |-> "B", score1 |-> NULL,
                      score2 |-> NULL, status |-> "scheduled"]]
    /\ match_seq = MaxMatch
    /\ \E P \in SUBSET UserIds :
          /\ predictions = {[user_id |-> u, match_id |-> 1,
                             pred_score1 |-> 1, pred_score2 |-> 0] : u \in P}
          /\ users = [u \in P |-> NameOf[u]]
    /\ leaderboard = {}
    /\ ret = Returned("init", <<>>, "", None)
    /\ calc = [seen |-> {}]
    /\ tx = TxIdle
    /\ nops = 0

\* storage.leaderboard_rows, first transaction
LeaderboardRowsRefresh ==
    /\ Call
    /\ tx[ReaderProc].pc = "idle"
    /\ leaderboard' = refresh_leaderboard(predictions, matches)
    /\ tx' = [tx EXCEPT ![ReaderProc] = [pc |-> "select"]]
    /\ calc' = [seen |-> {Store}]
    /\ ret' = Returned("refresh_leaderboard", <<>>, "", None)
    /\ UNCHANGED <<matches, users, predictions, match_seq>>

\* storage.leaderboard_rows, second transaction and return
LeaderboardRowsSelect ==
    /\ Call
    /\ tx[ReaderProc].pc = "select"
    /\ \E rows \in leaderboard_rows(leaderboard, users) :
          ret' = Returned("leaderboard_rows", <<>>, "", rows)
    /\ tx' = [tx EXCEPT ![ReaderProc] = [pc |-> "idle"]]
    /\ UNCHANGED <<matches, users, predictions, match_seq, leaderboard, calc>>

\* storage.append_prediction committed by another process
WriterAppendPrediction(match_id, user_id, username, score1, score2) ==
    /\ Call
    /\ LET r == append_prediction(predictions, users, matches,
                                  match_id, user_id, username, score1, score2)
       IN /\ predictions' = r.predictions
          /\ users' = r.users
          /\ ret' = Returned("append_prediction",
                             <<match_id, user_id, username, score1, score2>>, r.exc, None)
          /\ calc' = SeenWith(StoreAfter(r.users, matches, r.predictions))
    /\ UNCHANGED <<matches, match_seq, leaderboard, tx>>

\* storage.update_match_result committed by another process: score1, score2
\* and status in one transaction
WriterUpdateMatchResult(match_id, score1, score2) ==
    /\ Call
    /\ LET r == update_match_result(matches, match_id, score1, score2)
       IN /\ matches' = r.matches
          /\ ret' = Returned("update_match_result", <<match_id, score1, score2>>, "", r.val)
          /\ calc' = SeenWith(StoreAfter(users, r.matches, predictions))
    /\ UNCHANGED <<users, predictions, match_seq, leaderboard, tx>>

\* storage.refresh_leaderboard committed by another process (its own
\* leaderboard_rows, or the import tool)
WriterRefreshLeaderboard ==
    /\ Call
    /\ leaderboard' = refresh_leaderboard(predictions, matches)
    /\ ret' = Returned("refresh_leaderboard", <<>>, "", None)
    /\ UNCHANGED <<matches, users, predictions, match_seq, calc, tx>>

\* Scores the writers commit, as predictions and as results.
BoardScores == {<<1, 0>>, <<0, 0>>}

\* MaxBoardOps transactions in all.
NextBoard ==
    /\ nops < MaxBoardOps
    /\ \/ LeaderboardRowsRefresh
       \/ LeaderboardRowsSelect
       \/ \E m \in MatchIds, u \in UserIds, n \in Names, sc \in BoardScores :
             WriterAppendPrediction(m, u, n, sc[1], sc[2])
       \/ \E m \in MatchIds, sc \in BoardScores : WriterUpdateMatchResult(m, sc[1], sc[2])
       \/ WriterRefreshLeaderboard

SpecBoard == InitBoard /\ [][NextBoard]_vars

\* --------------------- append_prediction as concurrent database transactions
\* Each process runs storage.append_prediction once, statement by statement,
\* on PostgreSQL (READ COMMITTED): SELECT of the user, then at flush() the
\* INSERT/UPDATE of the user and the INSERT of the prediction, then COMMIT.
\* An INSERT whose key another open transaction has inserted waits for that
\* transaction to end; a key already committed raises IntegrityError.

\* q holds an uncommitted INSERT of users.id = user_id
HoldsUserInsert(q, user_id) ==
    /\ tx[q].pc \in {"flush_prediction", "commit"}
    /\ tx[q].user_id = user_id
    /\ tx[q].user_op = "insert"

\* q holds the row lock of an uncommitted UPDATE of users.id = user_id
HoldsUserUpdate(q, user_id) ==
    /\ tx[q].pc \in {"flush_prediction", "commit"}
    /\ tx[q].user_id = user_id
    /\ tx[q].user_op = "update"

\* q holds an uncommitted INSERT of predictions (user_id, match_id)
HoldsPredictionInsert(q, user_id, match_id) ==
    /\ tx[q].pc = "commit"
    /\ tx[q].user_id = user_id
    /\ tx[q].match_id = match_id

\* Variant: an INSERT that does not wait for an uncommitted INSERT of its key.
PredictionKeyLocked_never(p, user_id, match_id) == FALSE

\* The unique index of the primary key (user_id, match_id) makes p's INSERT
\* wait while another open transaction has inserted the same key.
PredictionKeyLocked(p, user_id, match_id) ==
    \E q \in Procs \ {p} : HoldsPredictionInsert(q, user_id, match_id)

TxRow(t) ==
    [user_id |-> t.user_id, match_id |-> t.match_id,
     pred_score1 |-> t.score1, pred_score2 |-> t.score2]

\* session_scope() entered; _ensure_user: session.get(User, user_id)
TxBegin(p, match_id, user_id, username, score1, score2) ==
    /\ tx[p].pc = "idle"
    /\ tx' = [tx EXCEPT ![p] =
                [pc |-> "flush_user", match_id |-> match_id, user_id |-> user_id,
                 username |-> username, score1 |-> score1, score2 |-> score2,
                 user_op |-> IF user_id \notin DOMAIN users THEN "insert"
                             ELSE IF _ensure_user(users, user_id, username) # users
                                  THEN "update" ELSE "none",
                 exc |-> ""]]
    /\ UNCHANGED <<matches, users, predictions, match_seq, leaderboard, ret, calc, nops>>

\* session.flush(), first statement: INSERT or UPDATE of the users row
TxFlushUser(p) ==
    /\ tx[p].pc = "flush_user"
    /\ ~ \E q \in Procs \ {p} :
            \/ tx[p].user_op = "insert" /\ HoldsUserInsert(q, tx[p].user_id)
            \/ tx[p].user_op = "update" /\ HoldsUserUpdate(q, tx[p].user_id)
    /\ IF tx[p].user_op = "insert" /\ tx[p].user_id \in DOMAIN users
       THEN \* IntegrityError: session.rollback(); raise ValueError
            tx' = [tx EXCEPT ![p].pc = "done", ![p].exc = "prediction_exists"]
       ELSE tx' = [tx EXCEPT ![p].pc = "flush_prediction"]
    /\ UNCHANGED <<matches, users, predictions, match_seq, leaderboard, ret, calc, nops>>

\* session.flush(), second statement: INSERT of the predictions row
TxFlushPrediction(p) ==
    /\ tx[p].pc = "flush_prediction"
    /\ ~ PredictionKeyLocked(p, tx[p].user_id, tx[p].match_id)
    /\ IF IntegrityError(predictions, matches, TxRow(tx[p]))
       THEN \* IntegrityError: session.rollback(); raise ValueError
            tx' = [tx EXCEPT ![p].pc = "done", ![p].exc = "prediction_exists"]
       ELSE tx' = [tx EXCEPT ![p].pc = "commit"]
    /\ UNCHANGED <<matches, users, predictions, match_seq, leaderboard, ret, calc, nops>>

\* session_scope() left without exception: session.commit()
TxCommit(p) ==
    /\ tx[p].pc = "commit"
    /\ users' = IF tx[p].user_op = "insert"
                THEN users @@ (tx[p].user_id :> tx[p].username)
                ELSE IF tx[p].user_op = "update"
                     THEN [users EXCEPT ![tx[p].user_id] = tx[p].username]
                     ELSE users
    /\ predictions' = predictions \cup {TxRow(tx[p])}
    /\ tx' = [tx EXCEPT ![p].pc = "done"]
    /\ UNCHANGED <<matches, match_seq, leaderboard, ret, calc, nops>>

\* The store the transactions start from: every match scheduled, any users
\* already registered under some name, no predictions yet.
InitTx ==
    /\ matches = [id \in MatchIds |->
                    [team1 |-> "A", team2 |-> "B", score1 |-> NULL,
                     score2 |-> NULL, status |-> "scheduled"]]
    /\ \E S \in SUBSET UserIds : users \in [S -> Names]
    /\ predictions = {}
    /\ match_seq = MaxMatch
    /\ leaderboard = {}
    /\ ret = Returned("init", <<>>, "", None)
    /\ calc = CalcIdle
    /\ tx = TxIdle
    /\ nops = 0

NextTx ==
    \/ \E p \in Procs, m \in MatchIds, u \in UserIds, s1, s2 \in Scores :
          TxBegin(p, m, u, NameOf[u], s1, s2)
    \/ \E p \in Procs : TxFlushUser(p)
    \/ \E p \in Procs : TxFlushPrediction(p)
    \/ \E p \in Procs : TxCommit(p)

SpecTx == InitTx /\ [][NextTx]_vars


\* ================================================================== claims

\* Points a stored prediction earns against the stored result of its match:
\* _calculate_points when the match is finished with both scores set, else 0.
EarnedPoints(p) ==
    LET m == matches[p.match_id]
    IN IF m.status = "finished" /\ m.score1 # NULL /\ m.score2 # NULL
       THEN _calculate_points(m.score1, m.score2, p.pred_score1, p.pred_score2)
       ELSE 0

PredictionsOf(u) == {p \in predictions : p.user_id = u}

ExpectedTotal(u) == SumOver(PredictionsOf(u), [p \in predictions |-> EarnedPoints(p)])

UniquePairs ==
    \A p, q \in predictions :
        (p.user_id = q.user_id /\ p.match_id = q.match_id) => p = q

\* C1: at most one prediction exists per (user_id, match_id) in every
\* reachable state, and an append_prediction call for a pair that already
\* has a prediction raises 'prediction_exists' and leaves the table as it was.
C1_LedgerUniqueness ==
    /\ []UniquePairs
    /\ [][(/\ nops' = nops + 1
           /\ ret'.op = "append_prediction"
           /\ \E p \in predictions : /\ p.match_id = ret'.args[1]
                                     /\ p.user_id = ret'.args[2])
          => (ret'.exc = "prediction_exists" /\ predictions' = predictions)]_vars

\* C1 witness: a second append for a stored pair, with other scores, was
\* rejected and the first row is still the one stored.
C1_Witness ==
    /\ ret.op = "append_prediction"
    /\ ret.exc = "prediction_exists"
    /\ \E p \in predictions :
          /\ p.match_id = ret.args[1]
          /\ p.user_id = ret.args[2]
          /\ <<p.pred_score1, p.pred_score2>> # <<ret.args[4], ret.args[5]>>

\* Processes that ran (or run) append_prediction for the pair of process p.
SamePair(p) ==
    {q \in Procs : /\ tx[q].pc # "idle"
                   /\ tx[q].user_id = tx[p].user_id
                   /\ tx[q].match_id = tx[p].match_id}

\* C2: of the concurrent append_prediction transactions for one pair, once
\* all have ended, exactly one has committed and every other has raised
\* 'prediction_exists'; at no time are there two rows for a pair.
C2_ConcurrentAppendOneWinner ==
    /\ UniquePairs
    /\ \A p \in Procs :
          (/\ tx[p].pc # "idle"
           /\ Cardinality(SamePair(p)) >= 2
           /\ \A q \in SamePair(p) : tx[q].pc = "done")
          => /\ Cardinality({q \in SamePair(p) : tx[q].exc = ""}) = 1
             /\ \A q \in SamePair(p) : tx[q].exc \in {"", "prediction_exists"}
             /\ Cardinality({r \in predictions : /\ r.user_id = tx[p].user_id
                                                 /\ r.match_id = tx[p].match_id}) = 1

\* C2 witness: two transactions for one pair that overlapped (both read the
\* users table before either committed its INSERT of the user) have ended,
\* one committed and one rejected.
C2_Witness ==
    \E p, q \in Procs :
        /\ p # q
        /\ tx[p].pc = "done" /\ tx[q].pc = "done"
        /\ q \in SamePair(p)
        /\ tx[p].user_op = "insert" /\ tx[q].user_op = "insert"
        /\ tx[p].exc = "" /\ tx[q].exc = "prediction_exists"

\* C3: a stored prediction is never removed and its pred_score1 and
\* pred_score2 never change, whichever operation runs.
C3_PredictionsImmutable ==
    [][\A p \in predictions : p \in predictions']_vars

\* C3 witness: a result was entered for a match that has a stored
\* prediction (and the prediction is still there).
C3_Witness ==
    /\ ret.op = "handle_admin_result_input"
    /\ ret.val.updated # None
    /\ \E p \in predictions : p.match_id = ret.args[1]

\* C4: leaderboard_rows() returns exactly one row for each user that has a
\* prediction, and its points are the sum, over the user's predictions, of
\* what _calculate_points awards against the stored score of finished
\* matches (0 for any other match).
C4_LeaderboardIsSumOfPoints ==
    ret.op = "leaderboard_rows" =>
        LET rows == ret.val
            predictors == {p.user_id : p \in predictions}
        IN /\ \A u \in predictors :
                 Cardinality({i \in 1..Len(rows) : rows[i][1] = u}) = 1
           /\ \A i \in 1..Len(rows) :
                 /\ rows[i][1] \in predictors
                 /\ rows[i][3] = ExpectedTotal(rows[i][1])

\* C4 witness: the leaderboard was read while a user had two predictions on
\* finished matches, one exact and one with the right outcome only.
C4_Witness ==
    /\ ret.op = "leaderboard_rows"
    /\ \E i \in 1..Len(ret.val) :
          /\ ret.val[i][3] = exact_points + result_points
          /\ Cardinality(PredictionsOf(ret.val[i][1])) = 2


\* The leaderboard totals a read of the store would give now.
Totals(ms) == refresh_leaderboard(predictions, ms)

Range(seq) == {seq[i] : i \in 1..Len(seq)}

\* C5: entering a result is idempotent. From any reachable store and for
\* any match and scores, entering the result a second time gives the same
\* leaderboard totals and the same awards as entering it once; and a result
\* entry that repeats the stored result leaves the match row as it was and
\* returns the awards settlement computes for it.
C5_SettlementIdempotent ==
    /\ \A m \in MatchIds, s1, s2 \in Scores :
          LET once == handle_admin_result_input(matches, predictions, users, m, s1, s2)
              twice == handle_admin_result_input(once.matches, predictions, users,
                                                 m, s1, s2)
          IN /\ Totals(twice.matches) = Totals(once.matches)
             /\ twice.awarded = once.awarded
             /\ twice.matches = once.matches
    /\ (/\ ret.op = "handle_admin_result_input"
        /\ ret.val.previous # None
        /\ ret.val.previous.status = "finished"
        /\ ret.val.previous.score1 = ret.args[2]
        /\ ret.val.previous.score2 = ret.args[3])
       => /\ _match_to_dict(ret.args[1], matches[ret.args[1]]) = ret.val.previous
          /\ ret.val.updated = ret.val.previous

\* C5 witness: a result was entered again with the scores already stored,
\* for a match with a prediction that earns points.
C5_Witness ==
    /\ ret.op = "handle_admin_result_input"
    /\ ret.val.previous # None
    /\ ret.val.previous.status = "finished"
    /\ ret.val.previous.score1 = ret.args[2]
    /\ ret.val.previous.score2 = ret.args[3]
    /\ \E i \in 1..Len(ret.val.awarded) : ret.val.awarded[i][3] > 0

\* Total of user u when the result of match m is (s1, s2): the points of
\* the predictions on m against (s1, s2) plus the earned points elsewhere.
LatestTotal(u, m, s1, s2) ==
    SumOver(PredictionsOf(u),
            [p \in predictions |->
                IF p.match_id = m
                THEN _calculate_points(s1, s2, p.pred_score1, p.pred_score2)
                ELSE EarnedPoints(p)])

\* C6: after a result is entered for a match that was already finished, the
\* match carries the new score, and every leaderboard row holds the points
\* computed against that latest score (plus the user's points on other
\* matches), not anything earned under the earlier result.
C6_ReentryOverwrites ==
    (/\ ret.op = "handle_admin_result_input"
     /\ ret.val.previous # None
     /\ ret.val.previous.status = "finished")
    => LET m == ret.args[1]
           s1 == ret.args[2]
           s2 == ret.args[3]
       IN /\ matches[m].score1 = s1
          /\ matches[m].score2 = s2
          /\ matches[m].status = "finished"
          /\ \A rows \in leaderboard_rows(Totals(matches), users) :
                \A i \in 1..Len(rows) : rows[i][3] = LatestTotal(rows[i][1], m, s1, s2)

\* C6 witness: a finished match got a different result, under which a stored
\* prediction earns other (non-zero) points than under the earlier one.
C6_Witness ==
    /\ ret.op = "handle_admin_result_input"
    /\ ret.val.previous # None
    /\ ret.val.previous.status = "finished"
    /\ ret.val.previous.score1 # NULL
    /\ ret.val.previous.score2 # NULL
    /\ \E p \in predictions :
          /\ p.match_id = ret.args[1]
          /\ _calculate_points(ret.val.previous.score1, ret.val.previous.score2,
                               p.pred_score1, p.pred_score2) = exact_points
          /\ _calculate_points(ret.args[2], ret.args[3],
                               p.pred_score1, p.pred_score2) = result_points

\* C7: the settlement of a result entry returns exactly one entry per
\* prediction stored for the match, (user_id, username, points) with points
\* = _calculate_points of the entered scores and the prediction, and an
\* empty list when the match has no prediction.
C7_SettleOnePerPrediction ==
    (ret.op = "handle_admin_result_input" /\ ret.val.updated # None)
    => LET m == ret.args[1]
           on_match == {p \in predictions : p.match_id = m}
           awarded == ret.val.awarded
       IN /\ Len(awarded) = Cardinality(on_match)
          /\ \A p \in on_match :
                Cardinality({i \in 1..Len(awarded) :
                    awarded[i] = <<p.user_id, users[p.user_id],
                                   _calculate_points(ret.args[2], ret.args[3],
                                                     p.pred_score1, p.pred_score2)>>}) = 1
          /\ (on_match = {} => awarded = <<>>)

\* C7 witness: a settlement over two predictions, one of which earns nothing.
C7_Witness ==
    /\ ret.op = "handle_admin_result_input"
    /\ ret.val.updated # None
    /\ Len(ret.val.awarded) = 2
    /\ \E i \in 1..2 : ret.val.awarded[i][3] = 0

\* C7 witness of the empty case: a result entered for a stored match without
\* predictions returned no awards.
C7_WitnessEmpty ==
    /\ ret.op = "handle_admin_result_input"
    /\ ret.val.updated # None
    /\ ret.val.awarded = <<>>

\* Outcome of a scoreline: 1 home win, 0 draw, -1 away win.
Outcome(a, b) == IF a > b THEN 1 ELSE IF a < b THEN 0 - 1 ELSE 0

CalcExact == calc.real1 = calc.pred1 /\ calc.real2 = calc.pred2

\* C8: _calculate_points awards exact_points when the prediction equals the
\* result, and only then.
C8_ExactTier ==
    calc.points # NULL => (CalcExact <=> calc.points = exact_points)

\* C8 witness: an exact prediction of a non-draw was scored.
C8_Witness ==
    /\ calc.points = exact_points
    /\ CalcExact
    /\ calc.real1 # calc.real2

\* C9: a prediction with the outcome of the result that is not exact gets
\* result_points.
C9_OutcomeTier ==
    (/\ calc.points # NULL
     /\ ~CalcExact
     /\ Outcome(calc.real1, calc.real2) = Outcome(calc.pred1, calc.pred2))
    => calc.points = result_points

\* C9 witness: a right outcome with another goal difference was scored.
C9_Witness ==
    /\ calc.points = result_points
    /\ ~CalcExact
    /\ Outcome(calc.real1, calc.real2) = Outcome(calc.pred1, calc.pred2)
    /\ calc.real1 - calc.real2 # calc.pred1 - calc.pred2

\* C10: a prediction whose outcome differs from that of the result gets 0.
C10_WrongOutcomeZero ==
    (/\ calc.points # NULL
     /\ Outcome(calc.real1, calc.real2) # Outcome(calc.pred1, calc.pred2))
    => calc.points = 0

\* C10 witness: a predicted home win on a drawn match was scored 0.
C10_Witness ==
    /\ calc.points = 0
    /\ Outcome(calc.real1, calc.real2) = 0
    /\ Outcome(calc.pred1, calc.pred2) = 1

\* ------------------------------------------------------------ match registry
Finished(m) == m.status = "finished"

HasScore(m) == m.score1 # NULL /\ m.score2 # NULL

\* C11: every stored match has status finished if and only if both its
\* scores are set.
C11_FinishedIffScored ==
    \A id \in DOMAIN matches : Finished(matches[id]) <=> HasScore(matches[id])

\* C12: a match becomes finished only by a result entry, and a finished
\* match stays finished whatever operation runs next.
C12_FinishedAbsorbing ==
    [][/\ \A id \in DOMAIN matches :
             Finished(matches[id])
             => (id \in DOMAIN matches' /\ Finished(matches'[id]))
       /\ \A id \in DOMAIN matches' :
             (/\ Finished(matches'[id])
              /\ (id \notin DOMAIN matches \/ ~Finished(matches[id])))
             => ret'.op = "handle_admin_result_input"]_vars

\* C14: a result entered for an id that no stored match has returns None
\* from update_match_result, changes no stored match, and no settlement is
\* made (no awards come back).
C14_UnknownMatchNoSettlement ==
    [][(/\ nops' = nops + 1
        /\ ret'.op = "handle_admin_result_input"
        /\ ret'.args[1] \notin DOMAIN matches)
       => /\ ret'.val.updated = None
          /\ ret'.val.awarded = <<>>
          /\ matches' = matches]_vars

\* C14 witness: a result was entered for an unknown id while another match
\* with a prediction is stored.
C14_Witness ==
    /\ ret.op = "handle_admin_result_input"
    /\ ret.val.updated = None
    /\ ret.args[1] \notin DOMAIN matches
    /\ matches # <<>>
    /\ predictions # {}

\* C15: add_match succeeds and returns a scheduled match without scores
\* whose id is greater than every other stored id.
C15_AddMatchFreshId ==
    ret.op = "add_match"
    => /\ ret.exc = ""
       /\ ret.val # None
       /\ ret.val.status = "scheduled"
       /\ ret.val.score1 = NULL
       /\ ret.val.score2 = NULL
       /\ ret.val.id \in DOMAIN matches
       /\ \A id \in DOMAIN matches \ {ret.val.id} : id < ret.val.id

\* C13: upsert_match on a finished match with another team1 or team2 raises
\* an error and leaves the stored match as it was, and no step changes the
\* team names of a match that is finished.
C13_FinishedTeamsImmutable ==
    [][/\ (/\ nops' = nops + 1
           /\ ret'.op = "upsert_match"
           /\ ret'.args[1] \in DOMAIN matches
           /\ Finished(matches[ret'.args[1]])
           /\ <<ret'.args[2], ret'.args[3]>>
                 # <<matches[ret'.args[1]].team1, matches[ret'.args[1]].team2>>)
          => (ret'.exc # "" /\ matches' = matches)
       /\ \A id \in DOMAIN matches :
             Finished(matches[id])
             => /\ id \in DOMAIN matches'
                /\ matches'[id].team1 = matches[id].team1
                /\ matches'[id].team2 = matches[id].team2]_vars

\* C13 witness: an upsert naming another second team, a scheduled status and
\* no scores was refused for a match that is stored finished with its score.
C13_Witness ==
    /\ ret.op = "upsert_match"
    /\ ret.exc = "Cannot change teams of finished match"
    /\ ret.args[4] = "scheduled"
    /\ ret.args[1] \in DOMAIN matches
    /\ Finished(matches[ret.args[1]])
    /\ HasScore(matches[ret.args[1]])
    /\ matches[ret.args[1]].team2 # ret.args[3]

\* The ids of a list of match dicts, in the order of the list.
IdsOf(rows) == [i \in 1..Len(rows) |-> rows[i].id]

Ascending(ids) == \A i, j \in 1..Len(ids) : i < j => ids[i] < ids[j]

HasPredicted(u, id) == \E p \in predictions : p.user_id = u /\ p.match_id = id

\* Stored matches that are not finished and that u has not predicted.
UnfinishedUnpredicted(u) ==
    {id \in DOMAIN matches : ~Finished(matches[id]) /\ ~HasPredicted(u, id)}

\* Stored matches that are scheduled and that u has not predicted.
OpenUnpredicted(u) ==
    {id \in DOMAIN matches : matches[id].status = "scheduled" /\ ~HasPredicted(u, id)}

\* rows lists exactly the matches S as stored, in ascending id order.
ListsExactly(rows, S) ==
    /\ Range(IdsOf(rows)) = S
    /\ Ascending(IdsOf(rows))
    /\ \A i \in 1..Len(rows) : rows[i] = _match_to_dict(rows[i].id, matches[rows[i].id])

\* v is the first match of S by id, None when S is empty.
FirstOf(v, S) ==
    IF S = {} THEN v = None
    ELSE /\ v # None
         /\ v.id \in S
         /\ \A id \in S : v.id <= id
         /\ v = _match_to_dict(v.id, matches[v.id])

\* C16 as stated: get_pending_matches_for_user(u) lists exactly the stored
\* matches that are not finished and that u has not predicted, ascending by
\* id, and get_next_match_for_prediction(u) is the first of them or None.
C16_PendingQueueNotFinished ==
    /\ ret.op = "get_pending_matches_for_user"
       => ListsExactly(ret.val, UnfinishedUnpredicted(ret.args[1]))
    /\ ret.op = "get_next_match_for_prediction"
       => FirstOf(ret.val, UnfinishedUnpredicted(ret.args[1]))

\* C16 amended: get_pending_matches_for_user(u) lists exactly the stored
\* matches whose status is scheduled and that u has not predicted, ascending
\* by id, and get_next_match_for_prediction(u) is the first of them or None.
C16_PendingQueueScheduled ==
    /\ ret.op = "get_pending_matches_for_user"
       => ListsExactly(ret.val, OpenUnpredicted(ret.args[1]))
    /\ ret.op = "get_next_match_for_prediction"
       => FirstOf(ret.val, OpenUnpredicted(ret.args[1]))

\* C16 witness: the queue of a user came back with one scheduled match while
\* a lower-numbered scheduled match the user has predicted and was left out.
C16_Witness ==
    /\ ret.op = "get_pending_matches_for_user"
    /\ Len(ret.val) = 1
    /\ \E id \in DOMAIN matches :
          /\ id < ret.val[1].id
          /\ matches[id].status = "scheduled"
          /\ HasPredicted(ret.args[1], id)

\* ------------------------------------------------------------- window gate
\* The Europe/Kyiv wall-clock second of the day of a datetime.
KyivSecondOfDay(now) ==
    IF now.tz = "utc" THEN (now.sec + KyivUtcOffset(now.dst)) % SecondsPerDay
    ELSE now.sec

At(h, m, sec) == h * 3600 + m * 60 + sec

\* The answer the claim gives for a datetime.
WindowOpenAt(now) == KyivSecondOfDay(now) <= At(17, 59, 0)

\* C20: each window check answers open exactly when the Kyiv wall-clock time
\* of now is at or before 17:59:00 of its own date (17:58:59 open, 17:59:01
\* closed, 00:00:01 open), and the bot's and the API's checks agree.
C20_WindowGate ==
    /\ "bot" \in calc.asked => (calc.bot <=> WindowOpenAt(calc.now))
    /\ "app" \in calc.asked => (calc.app <=> WindowOpenAt(calc.now))
    /\ calc.asked = {"bot", "app"} => calc.bot = calc.app
    /\ ("bot" \in calc.asked /\ KyivSecondOfDay(calc.now) = At(17, 58, 59)) => calc.bot
    /\ ("bot" \in calc.asked /\ KyivSecondOfDay(calc.now) = At(17, 59, 1)) => ~calc.bot
    /\ ("bot" \in calc.asked /\ KyivSecondOfDay(calc.now) = At(0, 0, 1)) => calc.bot

\* C20 witness: both checks were asked at a UTC instant that is 17:59:00 of
\* the second day in Kyiv in summer, and both answered open.
C20_Witness ==
    /\ calc.asked = {"bot", "app"}
    /\ calc.now.tz = "utc"
    /\ calc.now.dst
    /\ calc.now.day = 1
    /\ calc.now.sec = At(14, 59, 0)
    /\ calc.bot
    /\ calc.app

\* ------------------------------------------------------- prediction ledger
\* C17: no stored prediction has pred_score1 or pred_score2 outside [0, 99],
\* whichever entry point submitted it.
C17_StoredScoresInRange ==
    \A p \in predictions :
        /\ 0 <= p.pred_score1 /\ p.pred_score1 <= 99
        /\ 0 <= p.pred_score2 /\ p.pred_score2 <= 99

\* C18: append_prediction raises 'prediction_exists' only when a prediction
\* of that user for that match is stored, and an append for a match id that
\* is not stored raises another error and stores nothing.
C18_DuplicateOnlyWhenDuplicate ==
    ret.op = "append_prediction"
    => /\ ret.exc = "prediction_exists" => HasPredicted(ret.args[2], ret.args[1])
       /\ ret.args[1] \notin DOMAIN matches
          => /\ ret.exc \notin {"", "prediction_exists"}
             /\ ~HasPredicted(ret.args[2], ret.args[1])

\* Every value a caller can pass as a username, None and the empty string
\* among them.
AnyNames == Names \cup {"", NoName}

Falsy(name) == name \in {"", NoName}

\* C19 as stated: after ensure_user_record(user_id, name) or a successful
\* append_prediction(..., user_id, name, ...), the stored username of
\* user_id is name.
C19_LastWriteWins ==
    /\ ret.op = "ensure_user_record" => users[ret.args[1]] = ret.args[2]
    /\ (ret.op = "append_prediction" /\ ret.exc = "")
       => users[ret.args[2]] = ret.args[3]

\* What the amended C19 says the users table holds for user_id after a write
\* of name over the table us.
WrittenName(us, user_id, name) ==
    IF user_id \in DOMAIN us /\ Falsy(name) THEN us[user_id] ELSE name

\* C19 amended: after ensure_user_record(user_id, name) or a successful
\* append_prediction(..., user_id, name, ...), the stored username of
\* user_id is name when name is not empty or null or when the user was not
\* stored before; an empty or null name leaves the username of a stored user
\* as it was. No other user's row changes.
C19_LastNonEmptyWriteWins ==
    [][/\ (/\ nops' = nops + 1
           /\ ret'.op = "ensure_user_record")
          => /\ users'[ret'.args[1]] = WrittenName(users, ret'.args[1], ret'.args[2])
             /\ \A u \in DOMAIN users \ {ret'.args[1]} : users'[u] = users[u]
       /\ (/\ nops' = nops + 1
           /\ ret'.op = "append_prediction"
           /\ ret'.exc = "")
          => /\ users'[ret'.args[2]] = WrittenName(users, ret'.args[2], ret'.args[3])
             /\ \A u \in DOMAIN users \ {ret'.args[2]} : users'[u] = users[u]
       /\ \A u \in UserIds, name \in AnyNames :
             /\ ensure_user_record(users, u, name)[u] = WrittenName(users, u, name)
             /\ _ensure_user(users, u, name)[u] = WrittenName(users, u, name)]_vars

\* C19 witness: a line of the import file with an empty username stored a
\* prediction of a user who keeps the name stored before.
C19_Witness ==
    /\ ret.op = "append_prediction"
    /\ ret.exc = ""
    /\ ret.args[3] = ""
    /\ users[ret.args[2]] \in Names

\* C19 second witness: a successful append under another name renamed a
\* stored user.
C19_WitnessRename ==
    /\ ret.op = "append_prediction"
    /\ ret.exc = ""
    /\ ret.args[3] = "bob"
    /\ users[ret.args[2]] = "bob"
    /\ \E p \in predictions : p.user_id = ret.args[2] /\ p.match_id # ret.args[1]

\* ----------------------------------------------------- submission handlers
\* The argument now of a handler call says the window is closed.
ClosedAt(now) == ~WindowOpenAt(now)

\* C21: a submission handled by the bot or by the HTTP prediction endpoint
\* while the window is closed stores no prediction: the bot answers with the
\* deadline message and clears the pending prompt, the API answers
\* deadline_passed, and the ledger is as it was.
C21_ClosedWindowRejects ==
    [][/\ (/\ nops' = nops + 1
           /\ ret'.op = "handle_prediction_input"
           /\ ClosedAt(ret'.args[4]))
          => /\ predictions' = predictions
             /\ ret'.val.reply = "window_closed"
             /\ ret'.val.awaiting = NULL
       /\ (/\ nops' = nops + 1
           /\ ret'.op = "webapp_prediction"
           /\ ClosedAt(ret'.args[5]))
          => /\ predictions' = predictions
             /\ ret'.val.error = "deadline_passed"
             /\ ret'.val.status = 400]_vars

\* C21 witness: after the cutoff the bot refused a well-formed score for a
\* scheduled match the user had not predicted.
C21_Witness ==
    /\ ret.op = "handle_prediction_input"
    /\ ret.val.reply = "window_closed"
    /\ ClosedAt(ret.args[4])
    /\ parse_score(ret.args[3]) # None
    /\ matches[ret.args[2]].status = "scheduled"
    /\ ~HasPredicted(ret.args[1], ret.args[2])

\* C22: a request to the HTTP prediction endpoint made while the window is
\* open, with scores in [0, 99], for a stored scheduled match the user has
\* not predicted is answered ok and its prediction is stored; and
\* match_not_available is answered only for a match that is not stored or
\* not scheduled.
C22_WebappPredictionAccepts ==
    ret.op = "webapp_prediction"
    => LET u == ret.args[1]
           m == ret.args[2]
           s1 == ret.args[3]
           s2 == ret.args[4]
           open == m \in DOMAIN matches /\ matches[m].status = "scheduled"
       IN /\ (/\ WindowOpenAt(ret.args[5])
              /\ 0 <= s1 /\ s1 <= 99 /\ 0 <= s2 /\ s2 <= 99
              /\ open
              /\ ret.val.error # "already_predicted")
             => /\ ret.val.status = 200
                /\ ret.val.error = ""
                /\ [user_id |-> u, match_id |-> m,
                    pred_score1 |-> s1, pred_score2 |-> s2] \in predictions
          /\ ret.val.error = "match_not_available" => ~open

\* C23: a submission for a (user, match) pair that already has a prediction
\* never leaves its handler as an exception, also when another submission
\* for the pair is handled at the same time: the duplicate key error of the
\* ledger does not escape the bot's or the API's handler.
C23_DuplicateNeverUnhandled ==
    ret.op \in {"handle_prediction_input", "webapp_prediction"}
    => ret.exc # "prediction_exists"

\* ------------------------------------------------------------- leaderboard
\* C25: the rows leaderboard_rows returns are in descending order of points,
\* and rows of equal points are in ascending order of user_id.
C25_LeaderboardTieOrder ==
    ret.op = "leaderboard_rows"
    => \A i, j \in 1..Len(ret.val) :
          i < j => \/ ret.val[i][3] > ret.val[j][3]
                   \/ (ret.val[i][3] = ret.val[j][3] /\ ret.val[i][1] < ret.val[j][1])

\* ---------------------------------------------------------- _top_with_user
\* _top_with_user has returned.
TopReturned == "out" \in DOMAIN calc /\ calc.out # None

\* The smaller of two numbers.
Min(a, b) == IF a < b THEN a ELSE b

\* C26: top is exactly the first min(limit, len(rows)) rows in their given
\* order, each with rank equal to its 1-based position; 15 rows and limit 10
\* give a top of exactly 10 entries.
C26_TopIsPrefix ==
    TopReturned
    => /\ Len(calc.out.top) = Min(calc.limit, Len(calc.rows))
       /\ \A i \in 1..Len(calc.out.top) :
             /\ calc.out.top[i].user_id = calc.rows[i].user_id
             /\ calc.out.top[i].points = calc.rows[i].points
             /\ calc.out.top[i].rank = i
       /\ (Len(calc.rows) = 15 /\ calc.limit = 10) => Len(calc.out.top) = 10

\* C26 witness: 15 rows cut to a top of 10 whose last entry has rank 10.
C26_Witness ==
    /\ TopReturned
    /\ Len(calc.rows) = 15
    /\ calc.limit = 10
    /\ Len(calc.out.top) = 10
    /\ calc.out.top[10].rank = 10
    /\ calc.out.top[10].user_id = calc.rows[10].user_id

\* Positions of the rows of the requesting user.
UserPositions == {i \in 1..Len(calc.rows) : calc.rows[i].user_id = calc.user_id}

\* C27: the user row is the requesting user's row with rank equal to its
\* 1-based position in rows, also past the limit, where it is not in top;
\* it is None exactly when no row has that user_id.
C27_UserRowRank ==
    TopReturned
    => /\ (calc.out.user_row = None) <=> (UserPositions = {})
       /\ \A i \in UserPositions :
             /\ calc.out.user_row = RankedEntry(calc.rows[i], i)
             /\ i > calc.limit
                => \A k \in 1..Len(calc.out.top) : calc.out.top[k] # calc.out.user_row

\* C27 witness: of 15 rows with limit 10 the user's is the twelfth: the user
\* row has rank 12 and is not in top.
C27_Witness ==
    /\ TopReturned
    /\ Len(calc.rows) = 15
    /\ calc.limit = 10
    /\ UserPositions = {12}
    /\ calc.out.user_row.rank = 12
    /\ calc.out.user_row.user_id = calc.user_id
    /\ \A k \in 1..Len(calc.out.top) : calc.out.top[k].user_id # calc.user_id

\* ---------------------------------------------------------- accuracy views
\* The user's predictions on finished matches.
FinishedPredictionsOf(u) ==
    {p \in predictions : p.user_id = u /\ Finished(matches[p.match_id])}

\* The rows a view returned for a user.
RowsFor(u) == {row \in ret.val : row.user_id = u}

\* A view has returned rows.
ViewReturned ==
    /\ ret.op \in {"read_prediction_result_accuracy", "read_prediction_goal_accuracy"}
    /\ ret.exc = ""

\* C28: in both accuracy views a user's predictions count is the number of
\* the user's predictions on finished matches, and a user with no prediction
\* on a finished match has no row.
C28_ViewsCountFinishedOnly ==
    ViewReturned
    => \A u \in UserIds :
          IF FinishedPredictionsOf(u) = {}
          THEN RowsFor(u) = {}
          ELSE /\ Cardinality(RowsFor(u)) = 1
               /\ \A row \in RowsFor(u) :
                     row.predictions = Cardinality(FinishedPredictionsOf(u))

\* The prediction names the outcome of its match's result.
OutcomeCorrect(p) ==
    /\ HasScore(matches[p.match_id])
    /\ SIGN(p.pred_score1 - p.pred_score2)
          = SIGN(matches[p.match_id].score1 - matches[p.match_id].score2)

\* C29: for every user with a prediction on a finished match,
\* result_accuracy_percent = 100 * correct_outcomes / predictions, over the
\* user's predictions on finished matches, an exact score counting as
\* correct.
C29_ResultAccuracyFormula ==
    ret.op = "read_prediction_result_accuracy"
    => \A u \in UserIds :
          FinishedPredictionsOf(u) # {}
          => /\ RowsFor(u) # {}
             /\ \A row \in RowsFor(u) :
                   /\ row.predictions = Cardinality(FinishedPredictionsOf(u))
                   /\ row.result_accuracy_percent =
                         Rat(100 * Cardinality({p \in FinishedPredictionsOf(u) : OutcomeCorrect(p)}),
                             Cardinality(FinishedPredictionsOf(u)))

\* C29 witness: a user with two predictions on finished matches, one the
\* exact score and one of the wrong outcome, is given 50 percent.
C29_Witness ==
    /\ ret.op = "read_prediction_result_accuracy"
    /\ \E u \in UserIds :
          /\ Cardinality(FinishedPredictionsOf(u)) = 2
          /\ \E p \in FinishedPredictionsOf(u) :
                /\ p.pred_score1 = matches[p.match_id].score1
                /\ p.pred_score2 = matches[p.match_id].score2
          /\ \E p \in FinishedPredictionsOf(u) : HasScore(matches[p.match_id]) /\ ~OutcomeCorrect(p)
          /\ \E row \in RowsFor(u) : row.result_accuracy_percent = Rat(50, 1)

\* The user's predictions on finished matches that have a result.
ScoredPredictionsOf(u) ==
    {p \in FinishedPredictionsOf(u) : HasScore(matches[p.match_id])}

\* The mean over the user's predictions of _goal_accuracy_percent.
MeanGoalAccuracy(u) ==
    RatDiv(RatSum(ScoredPredictionsOf(u),
                  [p \in ScoredPredictionsOf(u) |->
                      _goal_accuracy_percent(matches[p.match_id].score1,
                                             matches[p.match_id].score2,
                                             p.pred_score1, p.pred_score2)]),
           Rat(Cardinality(ScoredPredictionsOf(u)), 1))

\* C30: read_prediction_goal_accuracy returns, for every user with a
\* prediction on a finished match, the mean of _goal_accuracy_percent over
\* those predictions (250/3 = 83.33 percent for the single prediction 2:1 on
\* the result 3:1).
C30_GoalAccuracyFormula ==
    ret.op = "read_prediction_goal_accuracy"
    => /\ ret.exc = ""
       /\ \A u \in UserIds :
             ScoredPredictionsOf(u) # {}
             => /\ RowsFor(u) # {}
                /\ \A row \in RowsFor(u) : row.goal_accuracy_percent = MeanGoalAccuracy(u)

\* ------------------------------------------------------- authenticated API
\* The initData carries the hash Telegram computes for its pairs under the
\* bot's token, is at most MAX_AGE old or ahead, and names a user.
Authentic(init_data) ==
    /\ "pairs" \in DOMAIN init_data
    /\ init_data.hash = Hmac(Hmac("WebAppData", BOT_TOKEN), init_data.pairs)
    /\ AuthNow - init_data.pairs.auth_date <= MAX_AGE
    /\ init_data.pairs.auth_date - AuthNow <= MAX_AGE
    /\ "user" \in DOMAIN init_data.pairs
    /\ init_data.pairs.user.json

\* What is wrong, in the order of the checks, with an initData that is not
\* authentic.
ExpectedError(init_data) ==
    IF \/ "pairs" \notin DOMAIN init_data
       \/ init_data.hash # Hmac(Hmac("WebAppData", BOT_TOKEN), init_data.pairs)
    THEN "invalid_signature"
    ELSE IF \/ AuthNow - init_data.pairs.auth_date > MAX_AGE
            \/ init_data.pairs.auth_date - AuthNow > MAX_AGE
    THEN "expired"
    ELSE IF "user" \notin DOMAIN init_data.pairs THEN "missing_user"
    ELSE "bad_user_json"

BothZeroSide(p) ==
    \/ (p.pred_score1 = 0 /\ matches[p.match_id].score1 = 0)
    \/ (p.pred_score2 = 0 /\ matches[p.match_id].score2 = 0)

\* C31: on a store with a prediction, on a finished match, one side of which
\* is 0 predicted and 0 real, read_prediction_goal_accuracy returns without
\* a division-by-zero error, and a prediction 0:0 on the result 0:0, the
\* user's only one, gives the user 100 percent.
C31_BothZeroSideAccurate ==
    (/\ ret.op = "read_prediction_goal_accuracy"
     /\ \E u \in UserIds : \E p \in ScoredPredictionsOf(u) : BothZeroSide(p))
    => /\ ret.exc # "division_by_zero"
       /\ \A u \in UserIds :
             (/\ Cardinality(ScoredPredictionsOf(u)) = 1
              /\ \A p \in ScoredPredictionsOf(u) :
                    /\ p.pred_score1 = 0 /\ p.pred_score2 = 0
                    /\ matches[p.match_id].score1 = 0
                    /\ matches[p.match_id].score2 = 0)
             => \E row \in RowsFor(u) : row.goal_accuracy_percent = Rat(100, 1)

\* ------------------------------------------------- the outcome check alone
\* The scoring with the outcome decided on the signs of the differences only.
SignOnlyPoints(real1, real2, pred1, pred2) ==
    IF real1 = pred1 /\ real2 = pred2 THEN exact_points
    ELSE IF SIGN(real1 - real2) = SIGN(pred1 - pred2) THEN result_points
    ELSE 0

\* C35: the goal-difference clause is redundant: _calculate_points and the
\* CASE expression of the leaderboard view give what the scoring on the
\* signs alone gives, equal differences having equal signs.
C35_DifferenceClauseRedundant ==
    /\ calc.points # NULL
       => /\ calc.points = SignOnlyPoints(calc.real1, calc.real2, calc.pred1, calc.pred2)
          /\ ViewCasePoints([pred_score1 |-> calc.pred1, pred_score2 |-> calc.pred2],
                            [status |-> "finished", score1 |-> calc.real1,
                             score2 |-> calc.real2])
                = SignOnlyPoints(calc.real1, calc.real2, calc.pred1, calc.pred2)
    /\ (calc.real1 - calc.real2) = (calc.pred1 - calc.pred2)
       => SIGN(calc.real1 - calc.real2) = SIGN(calc.pred1 - calc.pred2)

\* C35 witness: an inexact prediction of the same goal difference scored
\* with the outcome points.
C35_Witness ==
    /\ calc.points = result_points
    /\ (calc.real1 - calc.real2) = (calc.pred1 - calc.pred2)
    /\ calc.real1 # calc.pred1
    /\ calc.real1 # calc.real2

\* ----------------------------------------------------- failed append, frame
\* C38: an append_prediction that fails with 'prediction_exists' leaves the
\* predictions and the users as they were: no user row created, no stored
\* username changed.
C38_FailedAppendRollsBack ==
    [][(/\ nops' = nops + 1
        /\ ret'.op = "append_prediction"
        /\ ret'.exc = "prediction_exists")
       => (predictions' = predictions /\ users' = users)]_vars

\* C38 witness: a failed append that carried a name other than the stored
\* one for its user, which is still stored.
C38_Witness ==
    /\ ret.op = "append_prediction"
    /\ ret.exc = "prediction_exists"
    /\ ret.args[3] # ""
    /\ ret.args[2] \in DOMAIN users
    /\ users[ret.args[2]] # ret.args[3]

\* -------------------------------------------------------------- settlement
\* The tuples settlement owes for a match and the scores given.
AwardsFor(match_id, score1, score2) ==
    {<<p.user_id, users[p.user_id],
       _calculate_points(score1, score2, p.pred_score1, p.pred_score2)>>
     : p \in {q \in predictions : q.match_id = match_id}}

\* C39: settle_match_points changes no match, prediction or user; the
\* awards it returns are those of the scores it was given, and the
\* leaderboard aggregate, which reads the scores stored on the matches, is
\* what it was before the call.
C39_SettleReadOnly ==
    [][(nops' = nops + 1 /\ ret'.op = "settle_match_points")
       => /\ matches' = matches
          /\ predictions' = predictions
          /\ users' = users
          /\ {ret'.val[i] : i \in 1..Len(ret'.val)}
                = AwardsFor(ret'.args[1], ret'.args[2], ret'.args[3])
          /\ LeaderboardView(predictions', matches')
                = LeaderboardView(predictions, matches)]_vars

\* C39 witness: settlement of a finished match with scores other than the
\* stored ones awarded a user points that the leaderboard aggregate does not
\* give that user.
C39_Witness ==
    /\ ret.op = "settle_match_points"
    /\ Finished(matches[ret.args[1]])
    /\ HasScore(matches[ret.args[1]])
    /\ matches[ret.args[1]].score1 # ret.args[2]
    /\ \E i \in 1..Len(ret.val) :
          /\ ret.val[i][3] > 0
          /\ \E l \in LeaderboardView(predictions, matches) :
                l.user_id = ret.val[i][1] /\ l.points = 0

\* The storage functions the last update of the bot called.
BotCalls(r) == IF r.op = "text_router" THEN {r.val.calls[i] : i \in 1..Len(r.val.calls)} ELSE {}

\* C36: a prediction is only ever persisted for a match whose status is
\* scheduled at the moment of the append, whatever the bot and the API were
\* sent before, a result entered between the prompt and the answer included.
C36_AppendOnlyToScheduled ==
    [][\A p \in predictions' \ predictions :
          /\ p.match_id \in DOMAIN matches
          /\ matches[p.match_id].status = "scheduled"]_vars

\* C37: through the bot only a user of ADMIN_IDS creates a match or enters a
\* result: an update that calls storage.add_match or
\* storage.update_match_result, or changes the matches table, was sent by an
\* admin, and the user_data of a non-admin never holds an admin_mode.
C37_OnlyAdminsWriteMatches ==
    [][/\ (ret'.op = "text_router" /\ matches' # matches) => ret'.args[1] \in AdminIds
       /\ BotCalls(ret') \cap {"add_match", "update_match_result"} # {}
             => ret'.args[1] \in AdminIds
       /\ \A u \in UserIds \ AdminIds : calc'[u].admin_mode = ""]_vars

\* A non-admin pressed the result button while a match awaited its result,
\* and was not let in.
C37_Witness ==
    /\ ret.op = "text_router"
    /\ ret.args[1] \notin AdminIds
    /\ ret.args[2] = "ADMIN_ENTER_RESULT_BTN"
    /\ ret.val.replies = <<"unrecognised">>
    /\ get_next_pending_match_for_result(matches) # None

\* An answer that confirms, and one that cancels, in the add-match
\* conversation.
ConfirmAnswer(text) == text = "ADD_MATCH_CONFIRM_BTN" \/ Lower(text) \in YES_WORDS
CancelAnswer(text) == text = "ADD_MATCH_CANCEL_BTN" \/ Lower(text) \in CANCEL_WORDS

\* add_match_state with the default of the handler
StateOf(ud) == IF ud.add_match_state = "" THEN "await_team1" ELSE ud.add_match_state

\* C40: in the add-match conversation storage.add_match is called only in
\* state confirm_final, on a confirm answer, with both candidate names
\* non-empty, and with them; confirm_final is entered only from
\* confirm_team2, confirm_team2 only from await_team2, await_team2 only from
\* the confirm states of the two names, confirm_team1 only from await_team1;
\* a cancel answer in any state creates no match and clears admin_mode,
\* add_match_state and both candidate names.
C40_AddMatchConversation ==
    [][\A u \in UserIds :
          (ret'.op = "text_router" /\ ret'.args[1] = u) =>
             LET ud == calc[u]
                 ud2 == calc'[u]
                 text == ret'.args[2]
             IN /\ (matches' # matches) <=> ("add_match" \in BotCalls(ret') /\ ret'.exc = "")
                /\ "add_match" \in BotCalls(ret') =>
                      /\ text # "/start"
                      /\ ud.admin_mode = "adding_match"
                      /\ ud.add_match_state = "confirm_final"
                      /\ ConfirmAnswer(text)
                      /\ ud.candidate_team1 # "" /\ ud.candidate_team2 # ""
                      /\ ret'.exc = "" =>
                            \E id \in DOMAIN matches' \ DOMAIN matches :
                               /\ matches'[id].team1 = ud.candidate_team1
                               /\ matches'[id].team2 = ud.candidate_team2
                /\ ud2.add_match_state # ud.add_match_state =>
                      /\ ud2.add_match_state = "confirm_final"
                            => ud.add_match_state = "confirm_team2"
                      /\ ud2.add_match_state = "confirm_team2"
                            => ud.add_match_state = "await_team2"
                      /\ ud2.add_match_state = "await_team2"
                            => ud.add_match_state \in {"confirm_team1", "confirm_team2"}
                      /\ ud2.add_match_state = "confirm_team1"
                            => StateOf(ud) = "await_team1"
                /\ (ud.admin_mode = "adding_match" /\ CancelAnswer(text)) =>
                      /\ matches' = matches
                      /\ ud2.admin_mode = "" /\ ud2.add_match_state = ""
                      /\ ud2.candidate_team1 = "" /\ ud2.candidate_team2 = ""]_vars

\* An admin went through the conversation and the match was created.
C40_Witness ==
    /\ ret.op = "text_router"
    /\ "add_match" \in BotCalls(ret)
    /\ ret.exc = ""
    /\ ConfirmAnswer(ret.args[2])
    /\ \E id \in DOMAIN matches : matches[id].team1 = "A" /\ matches[id].team2 = "A"

\* The last reply of the last update of the bot, sent to user u.
LastReply(u) ==
    IF ret.op = "text_router" /\ ret.args[1] = u /\ Len(ret.val.replies) > 0
    THEN ret.val.replies[Len(ret.val.replies)] ELSE ""

\* The matches open for prediction that u has not predicted.
OpenFor(u) ==
    {id \in DOMAIN matches :
        matches[id].status = "scheduled" /\ ~HasPredicted(u, id)}

\* The user got the reply that all predictions are done, holds exactly one
\* prediction for every match open for prediction and is prompted for none.
AllPredicted(u) ==
    /\ LastReply(u) = "all_predicted"
    /\ calc[u].awaiting_prediction_match = NULL
    /\ \A id \in DOMAIN matches :
          matches[id].status = "scheduled" =>
             Cardinality({p \in predictions : p.user_id = u /\ p.match_id = id}) = 1

\* C33: while the window is open and no match is added, every prompt of the
\* prediction flow is for the lowest-id scheduled match the user has not
\* predicted, the 'all predictions done' reply comes with exactly one
\* prediction of the user for every scheduled match and no prompt pending,
\* and a prompted user who keeps answering with scores eventually gets it.
C33_PredictionFlowTerminates ==
    /\ [](\A u \in UserIds :
            /\ LastReply(u) = "prediction_prompt" =>
                  /\ ret.val.prompted \in OpenFor(u)
                  /\ \A id \in OpenFor(u) : ret.val.prompted <= id
                  /\ calc[u].awaiting_prediction_match = ret.val.prompted
            /\ LastReply(u) = "all_predicted" => AllPredicted(u))
    /\ \A u \in UserIds :
          (calc[u].awaiting_prediction_match # NULL) ~> AllPredicted(u)

\* A user predicted two matches in a row and was told all are done.
C33_Witness ==
    \E u \in UserIds :
       /\ AllPredicted(u)
       /\ ret.args[2] = "1:0"
       /\ Cardinality({p \in predictions : p.user_id = u}) = MaxMatch

\* The matches without a result.
Unfinished == {id \in DOMAIN matches : matches[id].status # "finished"}

\* The admin got the reply that no match is without result, every match is
\* finished and the entering_result mode is cleared.
AllResultsEntered(a) ==
    /\ LastReply(a) = "no_matches_without_result"
    /\ Unfinished = {}
    /\ calc[a].admin_mode = ""
    /\ calc[a].admin_result_match = NULL

\* C34: every prompt of the result flow is for the lowest-id match whose
\* status is not finished; a score entered marks the prompted match finished
\* with that score and prompts the next one; and with no match added an
\* admin who keeps entering scores eventually gets 'no matches without
\* result', every match finished and the mode cleared.
C34_ResultFlowTerminates ==
    /\ [](\A a \in AdminIds :
            /\ LastReply(a) = "result_prompt" =>
                  /\ ret.val.prompted \in Unfinished
                  /\ \A id \in Unfinished : ret.val.prompted <= id
                  /\ calc[a].admin_mode = "entering_result"
                  /\ calc[a].admin_result_match = ret.val.prompted
            /\ LastReply(a) = "no_matches_without_result" => AllResultsEntered(a))
    /\ [][\A a \in AdminIds :
            (/\ calc[a].admin_mode = "entering_result"
             /\ calc[a].awaiting_prediction_match = NULL
             /\ ret'.op = "text_router" /\ ret'.args[1] = a /\ ret'.args[2] = "1:0") =>
               LET id == calc[a].admin_result_match
               IN /\ matches'[id].status = "finished"
                  /\ matches'[id].score1 = 1 /\ matches'[id].score2 = 0
                  /\ \A o \in DOMAIN matches \ {id} : matches'[o] = matches[o]
                  /\ ret'.val.replies[1] = "result_saved"
                  /\ ret'.val.replies[2] \in {"result_prompt", "no_matches_without_result"}]_vars
    /\ \A a \in AdminIds :
          (calc[a].admin_mode = "entering_result") ~> AllResultsEntered(a)

\* The admin entered the results of two matches in a row and was told none
\* is left.
C34_Witness ==
    \E a \in AdminIds :
       /\ AllResultsEntered(a)
       /\ ret.args[2] = "1:0"
       /\ Cardinality(DOMAIN matches) = MaxMatch
       /\ \A id \in DOMAIN matches : matches[id].score1 = 1

\* The points column of rows: (user_id, points) for each row.
PointsOf(rows) == {<<rows[i][1], rows[i][3]>> : i \in 1..Len(rows)}

\* C32: under concurrent prediction appends and result entries, the rows a
\* leaderboard_rows() call returns are the leaderboard rows (user_id,
\* username, points) of one single store that existed between the start of
\* the call and its return.
C32_RowsOfOneStore ==
    (ret.op = "leaderboard_rows") =>
       \E st \in calc.seen :
          ret.val \in leaderboard_rows(LeaderboardView(st.predictions, st.matches), st.users)

\* C32 as amended: the points of the rows are the aggregate of one single
\* store that existed between the start of the call and its return, so they
\* count every prediction and result committed before the call and no result
\* in part; the usernames are those committed when the rows are selected.
C32_PointsOfOneStore ==
    (ret.op = "leaderboard_rows") =>
       /\ \E st \in calc.seen :
             /\ ret.val \in leaderboard_rows(LeaderboardView(st.predictions, st.matches), users)
             /\ \A m \in DOMAIN st.matches :
                   st.matches[m].status = "finished" <=> st.matches[m].score1 # NULL
       /\ \A i \in 1..Len(ret.val) :
             ret.val[i][1] \in DOMAIN users /\ ret.val[i][2] = users[ret.val[i][1]]

\* A call returned rows with points while a result was committed between its
\* refresh and its SELECT.
C32_Witness ==
    /\ ret.op = "leaderboard_rows"
    /\ \E i \in 1..Len(ret.val) : ret.val[i][3] > 0
    /\ \E st \in calc.seen :
          /\ st.matches # matches
          /\ ret.val \in leaderboard_rows(LeaderboardView(st.predictions, st.matches), users)
    /\ ret.val \notin leaderboard_rows(LeaderboardView(predictions, matches), users)

====
